---------------------------- MODULE Spec2Model ----------------------------
(***************************************************************************)
(* CDW_MedCP: the read-only SQL validator and the tool invocations that    *)
(* run validated SQL against the Clinical Data Warehouse.                  *)
(*                                                                         *)
(* SQL texts are TLA+ strings; a character is a string of length one.      *)
(***************************************************************************)
EXTENDS Integers, Sequences, FiniteSets, TLC

VARIABLES
    vq,           \* validator harness: the SQL text under validation
    vstate,       \* validator harness: "input" | "done"
    vres,         \* validator harness: result of is_read_only_clinical_query(vq)
    pc,           \* position of the tool invocation in progress
    tool,         \* name of the tool invoked
    sql,          \* the text the invocation validates (SQL, or the table name)
    rowLimit,     \* the row limit the caller asked the query tool for
    fetchSize,    \* argument of cursor.fetchmany; -1 stands for fetchall
    conn,         \* "none" | "open" | "closed": the invocation's connection
    connAttempts, \* get_connection calls made by the invocation
    connError,    \* message of the error pymssql.connect raised ("" when none)
    opens,        \* connections the invocation opened
    closes,       \* conn.close() calls made by the invocation
    openConns,    \* connections open in the process
    lastExecuted, \* the text last handed to cursor.execute
    execCount,    \* cursor.execute calls made by the invocation
    pending,      \* exception in flight inside the try block ("" when none)
    err,          \* message of the error the invocation raised
    result,       \* what the invocation returned
    ncols,        \* columns of cursor.description (0: description is None)
    nrows,        \* rows the backend result holds
    fetched,      \* rows fetched (row_count in export_query_to_csv)
    remaining,    \* rows the cursor has not handed out yet
    parentExists, \* export: output_path.parent.exists()
    fileExists,   \* export: the destination file exists
    fileRows,     \* export: data rows written to the destination file
    rowCount,     \* summarize_table: row_count; cohort_summary: count
    colsLeft,     \* summarize_table: columns not yet summarized
    colsDone,     \* summarize_table: entries of summary["columns"]
    colSummary,   \* summarize_table: the col_summary appended last
    idColumn,     \* cohort_summary: id_column
    demographics, \* cohort_summary: the demographics argument
    demoLeft,     \* cohort_summary: breakdown queries not yet run
    csvColumns,   \* formatting harness: column names of cursor.description
    csvRows,      \* formatting harness: the rows fetched
    csvState,     \* formatting harness: "idle" | "input" | "done"
    csvOut,       \* formatting harness: the text _execute_readonly_query returns
    namespace,    \* server build: config.namespace
    nsState,      \* server build: "idle" | "input" | "done"
    ns,           \* server build: _format_namespace(config.namespace)
    queryName,    \* server build: the name the free-form query tool is registered under
    refExists,    \* schema reference file: _SCHEMA_REF_PATH.exists()
    refTables,    \* schema reference file: its table names, in file order
    schema_ref,   \* schema.py _schema_ref: the process-wide cache
    refReads,     \* times the schema reference file was opened and parsed
    sOp,          \* the schema operation last invoked ("" when none)
    sArg,         \* its argument (table name or keyword)
    sChecked,     \* whether it tested the file's existence
    sOut,         \* its outcome
    entry,        \* startup: the entrypoint the process was started through
    creds,        \* startup: the four credentials found in the environment
    logLevel,     \* startup: the log level found in the environment
    spc,          \* startup: position of the process
    config,       \* startup: the CDWConfig constructed (none: empty sequence)
    regNext,      \* server build: the register call to make next
    registered,   \* server build: names of the tools registered
    prompts,      \* server build: names of the prompts registered
    startErr,     \* startup: the exception that ended the process ("" when none)
    tables_rows,  \* converter: the rows of the Tables sheet below its header
    cols_rows,    \* converter: the rows of the Columns sheet below its header
    convState,    \* converter: "idle" | "input" | "done"
    schemaOut,    \* converter: the schema written, entries in file order
    racers        \* race: per caller of _get_schema_ref, its position and locals

validatorVars == <<vq, vstate, vres>>

csvVars == <<csvColumns, csvRows, csvState, csvOut>>

nsVars == <<namespace, nsState, ns, queryName>>

schemaVars == <<refExists, refTables, schema_ref, refReads, sOp, sArg, sChecked, sOut>>

startupVars == <<entry, creds, logLevel, spc, config, regNext, registered, prompts, startErr>>

converterVars == <<tables_rows, cols_rows, convState, schemaOut>>

raceVars == <<racers>>

\* everything but the state of the database tools
harnessVars == <<validatorVars, csvVars, nsVars, schemaVars, startupVars, converterVars,
                 raceVars>>

connVars == <<conn, connAttempts, connError, opens, closes, openConns>>

cursorVars == <<ncols, nrows, fetched, remaining>>

fileVars == <<parentExists, fileExists, fileRows>>

statsVars == <<rowCount, colsLeft, colsDone, colSummary, idColumn, demographics, demoLeft>>

toolVars == <<pc, tool, sql, rowLimit, fetchSize, connVars, lastExecuted, execCount, pending,
              err, result, cursorVars, fileVars, statsVars>>

-----------------------------------------------------------------------------
(* Characters and the classes Python's str and re modules give them (ASCII) *)

Char(s, i) == SubSeq(s, i, i)

LowerLetters == "abcdefghijklmnopqrstuvwxyz"
UpperLetters == "ABCDEFGHIJKLMNOPQRSTUVWXYZ"
DigitChars == "0123456789"

CharsOf(s) == {Char(s, i) : i \in 1..Len(s)}

LowerSet == CharsOf(LowerLetters)
UpperSet == CharsOf(UpperLetters)
DigitSet == CharsOf(DigitChars)

\* re's \w : letters, digits and the underscore
IsWord(c) == c \in LowerSet \cup UpperSet \cup DigitSet \cup {"_"}

\* re's \s and the characters str.strip() removes
IsSpace(c) == c \in {" ", "\n", "\t", "\r"}

UpperOf == [c \in LowerSet |->
              Char(UpperLetters, CHOOSE i \in 1..Len(LowerLetters) : Char(LowerLetters, i) = c)]

UpperChar(c) == IF c \in LowerSet THEN UpperOf[c] ELSE c

\* str.upper()
RECURSIVE Upper(_)
Upper(s) ==
    IF Len(s) = 0 THEN ""
    ELSE IF Len(s) = 1 THEN UpperChar(s)
    ELSE LET half == Len(s) \div 2
         IN  Upper(SubSeq(s, 1, half)) \o Upper(SubSeq(s, half + 1, Len(s)))

\* str.strip()
Strip(s) ==
    IF \A i \in 1..Len(s) : IsSpace(Char(s, i)) THEN ""
    ELSE LET lo == CHOOSE i \in 1..Len(s) :
                      ~IsSpace(Char(s, i)) /\ \A j \in 1..(i - 1) : IsSpace(Char(s, j))
             hi == CHOOSE i \in 1..Len(s) :
                      ~IsSpace(Char(s, i)) /\ \A j \in (i + 1)..Len(s) : IsSpace(Char(s, j))
         IN  SubSeq(s, lo, hi)

\* str.startswith(p)
StartsWith(s, p) == Len(s) >= Len(p) /\ SubSeq(s, 1, Len(p)) = p

\* re's \b at the gap before position i (1..Len(s)+1): exactly one of the two
\* neighbours is a word character; outside the string counts as a non-word
WordBoundary(s, i) ==
    LET before == i > 1 /\ IsWord(Char(s, i - 1))
        after  == i <= Len(s) /\ IsWord(Char(s, i))
    IN  before # after

-----------------------------------------------------------------------------
(* validation.py *)

WriteKeywords ==
    {"MERGE", "CREATE", "SET", "DELETE", "REMOVE", "ADD", "INSERT", "UPDATE",
     "DROP", "ALTER", "TRUNCATE", "GRANT", "REVOKE", "EXEC", "EXECUTE", "SP_"}

\* one alternative of r"\b(MERGE|...|SP_)\b" matches somewhere in text u
KeywordFound(u, kw) ==
    \E i \in 1..(Len(u) - Len(kw) + 1) :
       /\ SubSeq(u, i, i + Len(kw) - 1) = kw
       /\ WordBoundary(u, i)
       /\ WordBoundary(u, i + Len(kw))

\* the search without re.IGNORECASE
is_write_query_CaseSensitive(query) ==
    \E kw \in WriteKeywords : KeywordFound(query, kw)

\* re.search(..., query, re.IGNORECASE) is not None: the keywords are upper case,
\* so ignoring case is matching against the upper-cased text
is_write_query(query) ==
    \E u \in {Upper(query)} : \E kw \in WriteKeywords : KeywordFound(u, kw)

\* where the leftmost "--" at or after position i starts (0: there is none)
FirstDashes(s, i) ==
    IF \A j \in i..(Len(s) - 1) : SubSeq(s, j, j + 1) # "--" THEN 0
    ELSE CHOOSE j \in i..(Len(s) - 1) :
            /\ SubSeq(s, j, j + 1) = "--"
            /\ \A k \in i..(j - 1) : SubSeq(s, k, k + 1) # "--"

\* where the first newline at or after position i is (0: there is none)
FirstNewline(s, i) ==
    IF \A j \in i..Len(s) : Char(s, j) # "\n" THEN 0
    ELSE CHOOSE j \in i..Len(s) :
            Char(s, j) = "\n" /\ \A k \in i..(j - 1) : Char(s, k) # "\n"

\* re.sub(r'--[^\n]*', '', query) on the text from position i on: the leftmost
\* "--" starts a match that runs up to, not including, the next newline
RECURSIVE StripFrom(_, _)
StripFrom(s, i) ==
    LET start == FirstDashes(s, i)
        newline == FirstNewline(s, start)
    IN  IF start = 0 THEN SubSeq(s, i, Len(s))
        ELSE IF newline = 0 THEN SubSeq(s, i, start - 1)
        ELSE SubSeq(s, i, start - 1) \o StripFrom(s, newline)

\* validation without the comment stripping
strip_comments_None(query) == query

strip_comments(query) == StripFrom(query, 1)

allowed_statements == {"SELECT", "WITH", "DECLARE"}

\* a chaining check that refuses every semicolon
ChainFound_AnySemicolon(clean_query) ==
    \E i \in 1..Len(clean_query) : Char(clean_query, i) = ";"

\* re.search(r';\s*\w+', clean_query)
ChainFound(clean_query) ==
    \E i \in 1..Len(clean_query) :
       /\ Char(clean_query, i) = ";"
       /\ \E j \in (i + 1)..Len(clean_query) :
             /\ IsWord(Char(clean_query, j))
             /\ \A k \in (i + 1)..(j - 1) : IsSpace(Char(clean_query, k))

is_read_only_clinical_query(query0) ==
    \E query \in {strip_comments(query0)} :
    \E clean_query \in {Upper(Strip(query))} :
        IF ~(\E stmt \in allowed_statements : StartsWith(clean_query, stmt)) THEN FALSE
        ELSE IF is_write_query(query) THEN FALSE
        ELSE IF ChainFound(clean_query) THEN FALSE
        ELSE TRUE

-----------------------------------------------------------------------------
(* Bounded SQL inputs for the validator: concatenations of fragments *)

MaxFrags == 2

Fragments ==
    {"SELECT 1", "select x", "With c ", "DECLARE", "SELECT '--'",
     " ", "\n", ";", "--", "-- DROP\n", ";(SELECT 2)", "x", "_",
     "; DROP TABLE X",
     "INSERT", "update", "Delete", "DROP", "alter", "TRUNCATE", "exec", "EXECUTE",
     "SET", "sp_", "merge", "CREATE", "remove", "ADD", "grant", "REVOKE"}

RECURSIVE QueriesOfLen(_)
QueriesOfLen(n) ==
    IF n = 0 THEN {""}
    ELSE {q \o f : q \in QueriesOfLen(n - 1), f \in Fragments}

Queries == UNION {QueriesOfLen(n) : n \in 0..MaxFrags}

-----------------------------------------------------------------------------
(* Validator harness: apply is_read_only_clinical_query to a bounded input *)

NoResult == [kind |-> "none", text |-> "", rows |-> 0]

\* no column has been summarized
NoSummary == [name |-> "", null_count |-> 0, null_pct |-> 0, divided |-> FALSE]

ToolIdle ==
    /\ pc = "idle" /\ tool = "" /\ sql = "" /\ rowLimit = 0 /\ fetchSize = 0
    /\ conn = "none" /\ connAttempts = 0 /\ connError = "" /\ opens = 0 /\ closes = 0 /\ openConns = 0
    /\ lastExecuted = "" /\ execCount = 0 /\ pending = "" /\ err = ""
    /\ result = NoResult
    /\ ncols = 0 /\ nrows = 0 /\ fetched = 0 /\ remaining = 0
    /\ parentExists = FALSE /\ fileExists = FALSE /\ fileRows = 0
    /\ rowCount = 0 /\ colsLeft = 0 /\ colsDone = 0 /\ colSummary = NoSummary
    /\ idColumn = "" /\ demographics = FALSE /\ demoLeft = 0

ValidatorIdle == vq = "" /\ vstate = "idle" /\ vres = FALSE

CsvIdle == csvColumns = <<>> /\ csvRows = <<>> /\ csvState = "idle" /\ csvOut = ""

NsIdle == namespace = "" /\ nsState = "idle" /\ ns = "" /\ queryName = ""

SchemaIdle ==
    /\ refExists = FALSE /\ refTables = <<>>
    /\ schema_ref = [loaded |-> FALSE, tables |-> <<>>] /\ refReads = 0
    /\ sOp = "" /\ sArg = "" /\ sChecked = FALSE
    /\ sOut = [kind |-> "none", error |-> "", value |-> <<>>]

StartupIdle ==
    /\ entry = "" /\ creds = <<>> /\ logLevel = "" /\ spc = "idle" /\ config = <<>>
    /\ regNext = 0 /\ registered = {} /\ prompts = {} /\ startErr = ""

ConverterIdle ==
    tables_rows = <<>> /\ cols_rows = <<>> /\ convState = "idle" /\ schemaOut = <<>>

RaceIdle == racers = <<>>

InitValidator ==
    /\ vq \in Queries
    /\ vstate = "input"
    /\ vres = FALSE
    /\ CsvIdle
    /\ NsIdle
    /\ SchemaIdle
    /\ StartupIdle
    /\ ConverterIdle
    /\ RaceIdle
    /\ ToolIdle

Validate ==
    /\ vstate = "input"
    /\ vres' = is_read_only_clinical_query(vq)
    /\ vstate' = "done"
    /\ UNCHANGED <<vq, csvVars, nsVars, schemaVars, startupVars, converterVars, raceVars,
                   toolVars>>

vars == <<harnessVars, toolVars>>

SpecValidator == InitValidator /\ [][Validate]_vars

-----------------------------------------------------------------------------
(* Inputs and environment of the tool invocations *)

DEFAULT_ROW_LIMIT == 1000
SEARCH_ROW_LIMIT == 50
ExportBatchSize == 5000
MaxSummarizedColumns == 50

MaxRowLimit == 2
MaxRows == 3
MaxCols == 2
MaxCount == 3

Schema == "deid_uf"

Min(a, b) == IF a <= b THEN a ELSE b

\* str(int) for a natural number, as the f-strings render row_limit
RECURSIVE IntStr(_)
IntStr(n) ==
    IF n < 10 THEN Char(DigitChars, n + 1)
    ELSE IntStr(n \div 10) \o Char(DigitChars, (n % 10) + 1)

RowLimits == (0..MaxRowLimit) \cup {DEFAULT_ROW_LIMIT}
SearchRowLimits == {1, SEARCH_ROW_LIMIT}
BackendRowCounts ==
    (0..MaxRows) \cup {DEFAULT_ROW_LIMIT + 1, ExportBatchSize, 2 * ExportBatchSize + 1}
ColumnCounts == {0, 2}
TableColumnCounts == (0..MaxCols) \cup {MaxSummarizedColumns + 1}

ToolQueries ==
    {"SELECT 1", "SELECT 1;", "select PatientKey from t -- cohort",
     "SELECT 1; DROP TABLE X", "DROP TABLE X", "SELECT '--'; DROP TABLE X"}
PatientIds == {"12345", "1; DROP TABLE X", "--'; DROP TABLE X --"}
SearchTerms == {"G35", "drop", "--'; DROP TABLE X --"}
TableNames ==
    {"PatientDim", "note_text", "deid.PatientDim", "Dim2", "", "_.", "Patient Dim", "a-b",
     "x]; DROP TABLE X --"}
ConnErrors == {"Login failed for user", "Unable to connect: Adaptive Server is unavailable"}
BackendErrors == {"Invalid column name", "Invalid object name"}
FileErrors == {"Permission denied"}
ExportPath == "/exports/results.csv"
ExportParent == "/exports"

QueryTools ==
    {"query", "get_patient_demographics", "get_encounters", "get_medications",
     "get_diagnoses", "get_labs"}
NotesTools == {"search_notes", "get_note"}
ConceptTools ==
    {"search_diagnoses_by_code", "search_medications_by_code", "search_procedures_by_code"}
CsvTools == QueryTools \cup NotesTools \cup ConceptTools

MsgQueryBlocked ==
    "Only SELECT queries are allowed. Write operations are blocked for security."
MsgOnlySelect == "Only SELECT queries are allowed."
MsgExportBlocked == "Only SELECT queries are allowed for export."
MsgCohortBlocked ==
    "Invalid patient_key_query - only read-only SELECT queries are allowed."
MsgInvalidTable == "Invalid table name"
MsgDirMissing == "Directory does not exist: " \o ExportParent
MsgConnFailed_Generic(e) == "Database connection failed"
MsgConnFailed(e) == "Database connection failed: " \o e
ValidationErrors ==
    {MsgQueryBlocked, MsgOnlySelect, MsgExportBlocked, MsgCohortBlocked,
     MsgInvalidTable, MsgDirMissing}

SentinelQuery == "Query executed successfully (no results returned)"
SentinelCsv == "No results found."
SentinelExport == "Query returned no results. No file created."

-----------------------------------------------------------------------------
(* Entry of a tool callback, dispatched by the protocol host when idle *)

Begin(t, text, limit, size, demo, parentOk) ==
    /\ pc = "idle"
    /\ tool' = t /\ sql' = text /\ rowLimit' = limit /\ fetchSize' = size
    /\ conn' = "none" /\ connAttempts' = 0 /\ connError' = "" /\ opens' = 0 /\ closes' = 0
    /\ lastExecuted' = "" /\ execCount' = 0 /\ pending' = ""
    /\ result' = NoResult
    /\ ncols' = 0 /\ nrows' = 0 /\ fetched' = 0 /\ remaining' = 0
    /\ parentExists' = parentOk /\ fileExists' = FALSE /\ fileRows' = 0
    /\ rowCount' = 0 /\ colsLeft' = 0 /\ colsDone' = 0 /\ colSummary' = NoSummary
    /\ idColumn' = "" /\ demographics' = demo /\ demoLeft' = 0
    /\ UNCHANGED <<harnessVars, openConns>>

\* a check whose failure is not raised
Reject_Ignored(msg) == pc' = "connect" /\ err' = ""

\* raise ToolError(msg) before any connection is requested
Reject(msg) == pc' = "raised" /\ err' = msg

Proceed == pc' = "connect" /\ err' = ""

\* queries.py _execute_readonly_query, up to get_connection
execute_readonly_query(t, text, limit, row_limit) ==
    /\ Begin(t, text, limit, row_limit, FALSE, FALSE)
    /\ IF ~is_read_only_clinical_query(text) THEN Reject(MsgQueryBlocked) ELSE Proceed

\* notes.py _query_to_csv, up to get_connection
query_to_csv(t, text) ==
    /\ Begin(t, text, 0, -1, FALSE, FALSE)
    /\ IF ~is_read_only_clinical_query(text) THEN Reject(MsgOnlySelect) ELSE Proceed

\* concepts.py _run_query, up to get_connection
run_query(t, text) ==
    /\ Begin(t, text, 0, -1, FALSE, FALSE)
    /\ IF ~is_read_only_clinical_query(text) THEN Reject(MsgOnlySelect) ELSE Proceed

-----------------------------------------------------------------------------
(* queries.py: SQL of the query tools and their callbacks *)

DemographicsSql(patient_id) ==
    "SELECT TOP 1 * FROM " \o Schema \o ".PatientDim "
    \o "WHERE (PatientDurableKey = '" \o patient_id \o "' OR PatientKey = '"
    \o patient_id \o "') "
    \o "ORDER BY CASE WHEN IsCurrent = 1 THEN 0 ELSE 1 END, StartDate DESC"

FactSql(table, orderBy, patient_id, row_limit) ==
    "SELECT TOP " \o IntStr(row_limit) \o " * FROM " \o Schema \o "." \o table \o " "
    \o "WHERE PatientDurableKey = '" \o patient_id \o "' OR PatientKey = '"
    \o patient_id \o "' "
    \o "ORDER BY " \o orderBy \o " DESC"

query ==
    \E sql_query \in ToolQueries, row_limit \in RowLimits :
        execute_readonly_query("query", sql_query, row_limit, row_limit)

get_patient_demographics ==
    \E patient_id \in PatientIds :
        execute_readonly_query("get_patient_demographics",
                               DemographicsSql(patient_id), DEFAULT_ROW_LIMIT,
                               DEFAULT_ROW_LIMIT)

get_encounters ==
    \E patient_id \in PatientIds, row_limit \in RowLimits :
        execute_readonly_query("get_encounters",
            FactSql("EncounterFact", "DateKey", patient_id, row_limit),
            row_limit, row_limit)

get_medications ==
    \E patient_id \in PatientIds, row_limit \in RowLimits :
        execute_readonly_query("get_medications",
            FactSql("MedicationOrderFact", "OrderedDateKey", patient_id, row_limit),
            row_limit, row_limit)

get_diagnoses ==
    \E patient_id \in PatientIds, row_limit \in RowLimits :
        execute_readonly_query("get_diagnoses",
            FactSql("DiagnosisEventFact", "StartDateKey", patient_id, row_limit),
            row_limit, row_limit)

get_labs ==
    \E patient_id \in PatientIds, row_limit \in RowLimits :
        execute_readonly_query("get_labs",
            FactSql("LabComponentResultFact", "ResultDateKey", patient_id, row_limit),
            row_limit, row_limit)

-----------------------------------------------------------------------------
(* notes.py and concepts.py: SQL of the search tools and their callbacks *)

SearchNotesSql(patient_durable_key, keyword, row_limit) ==
    "SELECT TOP " \o IntStr(row_limit)
    \o " nm.deid_note_key, nm.note_type, nm.encounter_type, "
    \o "nm.enc_dept_specialty, nm.deid_service_date, "
    \o "SUBSTRING(nt.note_text, 1, 500) AS note_snippet "
    \o "FROM note_metadata nm "
    \o "JOIN note_text nt ON nm.deid_note_key = nt.deid_note_key "
    \o "WHERE nm.PatientDurableKey = '" \o patient_durable_key \o "' "
    \o "AND nt.note_text LIKE '%" \o keyword \o "%' "
    \o "ORDER BY nm.deid_service_date DESC"

GetNoteSql(note_key) ==
    "SELECT nm.deid_note_key, nm.note_type, nm.encounter_type, "
    \o "nm.enc_dept_specialty, nm.deid_service_date, nt.note_text "
    \o "FROM note_metadata nm "
    \o "JOIN note_text nt ON nm.deid_note_key = nt.deid_note_key "
    \o "WHERE nm.deid_note_key = '" \o note_key \o "'"

DiagnosesSql(search_term, row_limit) ==
    "SELECT TOP " \o IntStr(row_limit)
    \o " dt.DiagnosisTerminologyKey, dt.DiagnosisKey, "
    \o "dt.Type, dt.Value, dt.DisplayString, dd.Name AS DiagnosisName "
    \o "FROM DiagnosisTerminologyDim dt "
    \o "JOIN DiagnosisDim dd ON dt.DiagnosisKey = dd.DiagnosisKey "
    \o "WHERE dt.Value LIKE '%" \o search_term \o "%' OR dt.DisplayString LIKE '%"
    \o search_term \o "%' "
    \o "OR dd.Name LIKE '%" \o search_term \o "%'"

MedicationsSql(search_term, row_limit) ==
    "SELECT TOP " \o IntStr(row_limit) \o " mc.MedicationCodeKey, mc.MedicationKey, "
    \o "mc.Type, mc.Code, mc.MedicationName, mc.MedicationGenericName, "
    \o "mc.MedicationTherapeuticClass "
    \o "FROM MedicationCodeDim mc "
    \o "WHERE mc.Code LIKE '%" \o search_term \o "%' OR mc.MedicationName LIKE '%"
    \o search_term \o "%' "
    \o "OR mc.MedicationGenericName LIKE '%" \o search_term \o "%'"

ProceduresSql(search_term, row_limit) ==
    "SELECT TOP " \o IntStr(row_limit) \o " pt.ProcedureTerminologyKey, "
    \o "pt.Code, pt.Name, pt.CodeSet "
    \o "FROM ProcedureTerminologyDim pt "
    \o "WHERE pt.Code LIKE '%" \o search_term \o "%' OR pt.Name LIKE '%"
    \o search_term \o "%'"

search_notes ==
    \E patient_durable_key \in PatientIds, keyword \in SearchTerms,
       row_limit \in SearchRowLimits :
        query_to_csv("search_notes",
                     SearchNotesSql(patient_durable_key, keyword, row_limit))

get_note ==
    \E note_key \in PatientIds : query_to_csv("get_note", GetNoteSql(note_key))

search_diagnoses_by_code ==
    \E search_term \in SearchTerms, row_limit \in SearchRowLimits :
        run_query("search_diagnoses_by_code", DiagnosesSql(search_term, row_limit))

search_medications_by_code ==
    \E search_term \in SearchTerms, row_limit \in SearchRowLimits :
        run_query("search_medications_by_code", MedicationsSql(search_term, row_limit))

search_procedures_by_code ==
    \E search_term \in SearchTerms, row_limit \in SearchRowLimits :
        run_query("search_procedures_by_code", ProceduresSql(search_term, row_limit))

-----------------------------------------------------------------------------
(* export.py and stats.py: entry of the callbacks *)

\* an export that does not look at the destination directory
export_query_to_csv_AnyDirectory ==
    \E sql_query \in ToolQueries, parentOk \in BOOLEAN :
        /\ Begin("export_query_to_csv", sql_query, 0, ExportBatchSize, FALSE, parentOk)
        /\ IF ~is_read_only_clinical_query(sql_query) THEN Reject(MsgExportBlocked)
           ELSE Proceed

export_query_to_csv ==
    \E sql_query \in ToolQueries, parentOk \in BOOLEAN :
        /\ Begin("export_query_to_csv", sql_query, 0, ExportBatchSize, FALSE, parentOk)
        /\ IF ~is_read_only_clinical_query(sql_query) THEN Reject(MsgExportBlocked)
           ELSE IF ~parentOk THEN Reject(MsgDirMissing)
           ELSE Proceed

\* str.isalnum() on ASCII text: non-empty, letters and digits only
IsAlnum(s) ==
    /\ Len(s) > 0
    /\ \A i \in 1..Len(s) : Char(s, i) \in LowerSet \cup UpperSet \cup DigitSet

\* str.replace(c, "") for a single character c
RECURSIVE RemoveChar(_, _)
RemoveChar(s, c) ==
    IF Len(s) = 0 THEN ""
    ELSE (IF Head(s) = c THEN "" ELSE Head(s)) \o RemoveChar(Tail(s), c)

\* a check that lets every non-empty name through
ValidTableName_NonEmpty(table_name) == Len(table_name) > 0

\* table_name.replace("_", "").replace(".", "").isalnum()
ValidTableName(table_name) == IsAlnum(RemoveChar(RemoveChar(table_name, "_"), "."))

QualifiedTable(table_name) == "[" \o Schema \o "].[" \o table_name \o "]"

summarize_table ==
    \E table_name \in TableNames :
        /\ Begin("summarize_table", table_name, 0, 0, FALSE, FALSE)
        /\ IF ~ValidTableName(table_name) THEN Reject(MsgInvalidTable) ELSE Proceed

cohort_summary ==
    \E patient_key_query \in ToolQueries, demo \in BOOLEAN :
        /\ Begin("cohort_summary", patient_key_query, 0, 0, demo, FALSE)
        /\ IF ~is_read_only_clinical_query(patient_key_query)
           THEN Reject(MsgCohortBlocked)
           ELSE Proceed

-----------------------------------------------------------------------------
(* db.py *)

\* a connection helper that asks again after a failure
get_connection_Retrying ==
    /\ pc = "connect"
    /\ connAttempts' = connAttempts + 1
    /\ \/ /\ conn' = "open"
          /\ opens' = opens + 1
          /\ openConns' = openConns + 1
          /\ pc' = "try"
          /\ UNCHANGED <<err, connError>>
       \/ \E e \in ConnErrors :
             /\ connError' = e
             /\ pc' = IF connAttempts = 0 THEN "connect" ELSE "raised"
             /\ err' = IF connAttempts = 0 THEN err ELSE MsgConnFailed(e)
             /\ UNCHANGED <<conn, opens, openConns>>
    /\ UNCHANGED <<harnessVars, tool, sql, rowLimit, fetchSize, closes, lastExecuted, execCount,
                   pending, result, cursorVars, fileVars, statsVars>>

get_connection ==
    /\ pc = "connect"
    /\ connAttempts' = connAttempts + 1
    /\ \/ /\ conn' = "open"
          /\ opens' = opens + 1
          /\ openConns' = openConns + 1
          /\ pc' = "try"
          /\ UNCHANGED <<err, connError>>
       \/ \E e \in ConnErrors :
             /\ connError' = e
             /\ pc' = "raised"
             /\ err' = MsgConnFailed(e)
             /\ UNCHANGED <<conn, opens, openConns>>
    /\ UNCHANGED <<harnessVars, tool, sql, rowLimit, fetchSize, closes, lastExecuted, execCount,
                   pending, result, cursorVars, fileVars, statsVars>>

-----------------------------------------------------------------------------
(* The try blocks *)

\* cursor.execute(text): the text reaches the backend whether or not it then fails
Executes(text) == lastExecuted' = text /\ execCount' = execCount + 1

\* an exception that leaves the callback without running conn.close()
Raises_SkippingFinally(e) == pending' = e /\ pc' = "raised"

\* an exception leaves the try block through its finally clause
Raises(e) == pending' = e /\ pc' = "finally"

\* _execute_readonly_query, _query_to_csv, _run_query, export_query_to_csv:
\* cursor.execute(sql) and the read of cursor.description
Execute ==
    /\ pc = "try"
    /\ tool \in CsvTools \cup {"export_query_to_csv"}
    /\ Executes(sql)
    /\ \/ \E e \in BackendErrors : Raises(e) /\ UNCHANGED cursorVars
       \/ \E c \in ColumnCounts, n \in BackendRowCounts :
             LET rows == IF c = 0 THEN 0 ELSE n
             IN  /\ ncols' = c /\ nrows' = rows /\ remaining' = rows
                 /\ pc' = IF tool # "export_query_to_csv" THEN "fetch"
                          ELSE IF c = 0 THEN "finally" ELSE "export_open"
                 /\ UNCHANGED <<pending, fetched>>
    /\ UNCHANGED <<harnessVars, tool, sql, rowLimit, fetchSize, connVars, err, result,
                   fileVars, statsVars>>

\* a fetch that ignores the size
FetchMany_All(available, size) == available

\* cursor.fetchmany(size) hands out at most size of the rows left; cursor.fetchall()
\* (size -1) hands out all of them
FetchMany(available, size) == IF size < 0 THEN available ELSE Min(available, size)

\* cursor.fetchmany(row_limit) in queries.py, cursor.fetchall() in notes.py and
\* concepts.py
Fetch ==
    /\ pc = "fetch"
    /\ \/ \E e \in BackendErrors : Raises(e) /\ UNCHANGED cursorVars
       \/ LET rows == FetchMany(remaining, fetchSize)
          IN  /\ fetched' = rows
              /\ remaining' = remaining - rows
              /\ pc' = "finally"
              /\ UNCHANGED <<pending, ncols, nrows>>
    /\ UNCHANGED <<harnessVars, tool, sql, rowLimit, fetchSize, connVars, lastExecuted,
                   execCount, err, result, fileVars, statsVars>>

\* export.py: open(output_path, "w") and writer.writerow(columns)
ExportOpenFile ==
    /\ pc = "export_open"
    /\ \/ \E e \in FileErrors : Raises(e) /\ UNCHANGED fileVars
       \/ /\ fileExists' = TRUE /\ fileRows' = 0
          /\ pc' = "export_loop"
          /\ UNCHANGED <<pending, parentExists>>
    /\ UNCHANGED <<harnessVars, tool, sql, rowLimit, fetchSize, connVars, lastExecuted,
                   execCount, err, result, cursorVars, statsVars>>

\* an export that fetches one batch and stops
ExportFetchBatch_OneBatch ==
    /\ pc = "export_loop"
    /\ \/ \E e \in BackendErrors \cup FileErrors :
             Raises(e) /\ UNCHANGED <<cursorVars, fileVars>>
       \/ LET rows == FetchMany(remaining, ExportBatchSize)
          IN  /\ remaining' = remaining - rows
              /\ fetched' = fetched + rows
              /\ fileRows' = fileRows + rows
              /\ pc' = "finally"
              /\ UNCHANGED <<pending, ncols, nrows, parentExists, fileExists>>
    /\ UNCHANGED <<harnessVars, tool, sql, rowLimit, fetchSize, connVars, lastExecuted,
                   execCount, err, result, statsVars>>

\* export.py: one turn of the while loop
ExportFetchBatch ==
    /\ pc = "export_loop"
    /\ \/ \E e \in BackendErrors \cup FileErrors :
             Raises(e) /\ UNCHANGED <<cursorVars, fileVars>>
       \/ LET rows == FetchMany(remaining, ExportBatchSize)
          IN  /\ remaining' = remaining - rows
              /\ fetched' = fetched + rows
              /\ fileRows' = fileRows + rows
              /\ pc' = IF rows = 0 THEN "finally" ELSE "export_loop"
              /\ UNCHANGED <<pending, ncols, nrows, parentExists, fileExists>>
    /\ UNCHANGED <<harnessVars, tool, sql, rowLimit, fetchSize, connVars, lastExecuted,
                   execCount, err, result, statsVars>>

-----------------------------------------------------------------------------
(* stats.py: summarize_table *)

ColumnNames == {"PatientKey", "Sex"}

SummarizeCountSql(table_name) == "SELECT COUNT(*) FROM " \o QualifiedTable(table_name)

SummarizeColumnsSql(table_name) ==
    "SELECT COLUMN_NAME, DATA_TYPE FROM INFORMATION_SCHEMA.COLUMNS "
    \o "WHERE TABLE_SCHEMA = '" \o Schema \o "' AND TABLE_NAME = '" \o table_name
    \o "' ORDER BY ORDINAL_POSITION"

SummarizeNullSql(table_name, col_name) ==
    "SELECT COUNT(*) FROM " \o QualifiedTable(table_name)
    \o " WHERE [" \o col_name \o "] IS NULL"

SummarizeCount ==
    /\ pc = "try"
    /\ tool = "summarize_table"
    /\ Executes(SummarizeCountSql(sql))
    /\ \/ \E e \in BackendErrors : Raises(e) /\ UNCHANGED rowCount
       \/ \E n \in 0..MaxCount :
             rowCount' = n /\ pc' = "summ_columns" /\ UNCHANGED pending
    /\ UNCHANGED <<harnessVars, tool, sql, rowLimit, fetchSize, connVars, err, result,
                   cursorVars, fileVars, colsLeft, colsDone, colSummary, idColumn, demographics,
                   demoLeft>>

SummarizeColumns ==
    /\ pc = "summ_columns"
    /\ Executes(SummarizeColumnsSql(sql))
    /\ \/ \E e \in BackendErrors : Raises(e) /\ UNCHANGED colsLeft
       \/ \E k \in TableColumnCounts :
             /\ colsLeft' = Min(k, MaxSummarizedColumns)
             /\ pc' = IF k = 0 THEN "finally" ELSE "summ_column"
             /\ UNCHANGED pending
    /\ UNCHANGED <<harnessVars, tool, sql, rowLimit, fetchSize, connVars, err, result,
                   cursorVars, fileVars, rowCount, colsDone, colSummary, idColumn, demographics,
                   demoLeft>>

\* the null percentage with nothing reported for an empty table but the count
null_pct_OfNullCount(null_count, row_count) ==
    IF row_count > 0 THEN (2 * 1000 * null_count + row_count) \div (2 * row_count)
    ELSE null_count

\* round(null_count / row_count * 100, 1) if row_count > 0 else 0, in tenths of a
\* percent; a quotient half-way between two tenths needs a row count that is a
\* multiple of 16
null_pct(null_count, row_count) ==
    IF row_count > 0 THEN (2 * 1000 * null_count + row_count) \div (2 * row_count)
    ELSE 0

\* col_summary; divided tells whether null_count / row_count was evaluated
col_summary(col_name, null_count, row_count) ==
    [name |-> col_name, null_count |-> null_count,
     null_pct |-> null_pct(null_count, row_count), divided |-> row_count > 0]

\* one turn of the loop over columns[:50]: the rows of the table may have changed
\* since they were counted
SummarizeColumn ==
    /\ pc = "summ_column"
    /\ \E col_name \in ColumnNames :
          /\ Executes(SummarizeNullSql(sql, col_name))
          /\ \/ \E e \in BackendErrors :
                   Raises(e) /\ UNCHANGED <<colsLeft, colsDone, colSummary>>
             \/ \E null_count \in 0..MaxCount :
                   /\ colSummary' = col_summary(col_name, null_count, rowCount)
                   /\ colsDone' = colsDone + 1
                   /\ colsLeft' = colsLeft - 1
                   /\ pc' = IF colsLeft = 1 THEN "finally" ELSE "summ_column"
                   /\ UNCHANGED pending
    /\ UNCHANGED <<harnessVars, tool, sql, rowLimit, fetchSize, connVars, err, result,
                   cursorVars, fileVars, rowCount, idColumn, demographics, demoLeft>>

-----------------------------------------------------------------------------
(* stats.py: cohort_summary *)

CohortCountSql(id_column, patient_key_query) ==
    "SELECT COUNT(DISTINCT " \o id_column \o ") FROM (" \o patient_key_query \o ") sub"

\* a breakdown that filters on the stable key whatever column was counted
CohortBreakdownSql_AlwaysDurable(column, join_col, patient_key_query) ==
    "SELECT " \o column \o ", COUNT(*) AS n FROM " \o Schema \o ".PatientDim "
    \o "WHERE IsCurrent = 1 AND PatientDurableKey IN (" \o patient_key_query
    \o ") GROUP BY " \o column \o " ORDER BY n DESC"

\* sex_sql, race_sql, eth_sql
CohortBreakdownSql(column, join_col, patient_key_query) ==
    "SELECT " \o column \o ", COUNT(*) AS n FROM " \o Schema \o ".PatientDim "
    \o "WHERE IsCurrent = 1 AND " \o join_col \o " IN (" \o patient_key_query
    \o ") GROUP BY " \o column \o " ORDER BY n DESC"

BreakdownColumn(left) ==
    IF left = 3 THEN "Sex" ELSE IF left = 2 THEN "FirstRace" ELSE "Ethnicity"

\* the statements after a count query succeeded
Counted(count, id_column) ==
    /\ rowCount' = count
    /\ idColumn' = id_column
    /\ IF demographics /\ count > 0
       THEN pc' = "cohort_demo" /\ demoLeft' = 3
       ELSE pc' = "finally" /\ demoLeft' = 0
    /\ UNCHANGED pending

CohortCount ==
    /\ pc = "try"
    /\ tool = "cohort_summary"
    /\ Executes(CohortCountSql("PatientDurableKey", sql))
    /\ \/ /\ pc' = "cohort_fallback"
          /\ UNCHANGED <<pending, rowCount, idColumn, demoLeft>>
       \/ \E n \in 0..MaxCount : Counted(n, "PatientDurableKey")
    /\ UNCHANGED <<harnessVars, tool, sql, rowLimit, fetchSize, connVars, err, result,
                   cursorVars, fileVars, colsLeft, colsDone, colSummary, demographics>>

CohortFallback ==
    /\ pc = "cohort_fallback"
    /\ Executes(CohortCountSql("PatientKey", sql))
    /\ \/ \E e \in BackendErrors : Raises(e) /\ UNCHANGED <<rowCount, idColumn, demoLeft>>
       \/ \E n \in 0..MaxCount : Counted(n, "PatientKey")
    /\ UNCHANGED <<harnessVars, tool, sql, rowLimit, fetchSize, connVars, err, result,
                   cursorVars, fileVars, colsLeft, colsDone, colSummary, demographics>>

CohortBreakdown ==
    /\ pc = "cohort_demo"
    /\ Executes(CohortBreakdownSql(BreakdownColumn(demoLeft), idColumn, sql))
    /\ \/ \E e \in BackendErrors : Raises(e) /\ UNCHANGED demoLeft
       \/ /\ demoLeft' = demoLeft - 1
          /\ pc' = IF demoLeft = 1 THEN "finally" ELSE "cohort_demo"
          /\ UNCHANGED pending
    /\ UNCHANGED <<harnessVars, tool, sql, rowLimit, fetchSize, connVars, err, result,
                   cursorVars, fileVars, rowCount, colsLeft, colsDone, colSummary,
                   idColumn,
                   demographics>>

-----------------------------------------------------------------------------
(* The finally clauses, and what follows them *)

Text(t) == [kind |-> "text", text |-> t, rows |-> 0]

Returned ==
    IF tool \in QueryTools
    THEN IF ncols = 0 THEN Text(SentinelQuery)
         ELSE [kind |-> "csv", text |-> "", rows |-> fetched]
    ELSE IF tool \in NotesTools \cup ConceptTools
    THEN IF ncols = 0 THEN Text(SentinelCsv)
         ELSE [kind |-> "csv", text |-> "", rows |-> fetched]
    ELSE IF tool = "export_query_to_csv"
    THEN IF ncols = 0 THEN Text(SentinelExport)
         ELSE Text("Exported " \o IntStr(fetched) \o " rows to " \o ExportPath)
    ELSE IF tool = "summarize_table"
    THEN [kind |-> "json", text |-> Schema \o "." \o sql, rows |-> colsDone]
    ELSE [kind |-> "json", text |-> idColumn, rows |-> rowCount]

\* finally: conn.close(); then the pending exception propagates, or the callback
\* formats and returns its result
Finally ==
    /\ pc = "finally"
    /\ conn' = "closed"
    /\ closes' = closes + 1
    /\ openConns' = openConns - 1
    /\ IF pending # ""
       THEN pc' = "raised" /\ err' = pending /\ UNCHANGED result
       ELSE pc' = "returned" /\ result' = Returned /\ UNCHANGED err
    /\ UNCHANGED <<harnessVars, tool, sql, rowLimit, fetchSize, connAttempts,
                   connError, opens,
                   lastExecuted, execCount, pending, cursorVars, fileVars, statsVars>>

-----------------------------------------------------------------------------
(* The server: tool invocations, one at a time *)

\* the host has delivered the result or the error and waits for the next request;
\* nothing of the finished invocation is kept (connections are per invocation)
NextRequest ==
    /\ pc \in {"returned", "raised"}
    /\ pc' = "idle" /\ tool' = "" /\ sql' = "" /\ rowLimit' = 0 /\ fetchSize' = 0
    /\ conn' = "none" /\ connAttempts' = 0 /\ connError' = "" /\ opens' = 0 /\ closes' = 0
    /\ lastExecuted' = "" /\ execCount' = 0 /\ pending' = "" /\ err' = ""
    /\ result' = NoResult
    /\ ncols' = 0 /\ nrows' = 0 /\ fetched' = 0 /\ remaining' = 0
    /\ parentExists' = FALSE /\ fileExists' = FALSE /\ fileRows' = 0
    /\ rowCount' = 0 /\ colsLeft' = 0 /\ colsDone' = 0 /\ colSummary' = NoSummary
    /\ idColumn' = "" /\ demographics' = FALSE /\ demoLeft' = 0
    /\ UNCHANGED <<harnessVars, openConns>>

Init ==
    /\ ValidatorIdle
    /\ CsvIdle
    /\ NsIdle
    /\ SchemaIdle
    /\ StartupIdle
    /\ ConverterIdle
    /\ RaceIdle
    /\ ToolIdle

Next ==
    \/ query
    \/ get_patient_demographics
    \/ get_encounters
    \/ get_medications
    \/ get_diagnoses
    \/ get_labs
    \/ search_notes
    \/ get_note
    \/ search_diagnoses_by_code
    \/ search_medications_by_code
    \/ search_procedures_by_code
    \/ export_query_to_csv
    \/ summarize_table
    \/ cohort_summary
    \/ get_connection
    \/ Execute
    \/ Fetch
    \/ ExportOpenFile
    \/ ExportFetchBatch
    \/ SummarizeCount
    \/ SummarizeColumns
    \/ SummarizeColumn
    \/ CohortCount
    \/ CohortFallback
    \/ CohortBreakdown
    \/ Finally
    \/ NextRequest

Spec == Init /\ [][Next]_vars

\* a tool callback runs to its end: the host runs one callback at a time and
\* nothing in a callback waits for another
SpecLive == Spec /\ WF_vars(Next)

-----------------------------------------------------------------------------
(* queries.py: the CSV text built from cursor.description and the fetched rows *)

\* the Python values a row holds: None, an int or a str
None == [type |-> "none", i |-> 0, s |-> ""]
IntValue(n) == [type |-> "int", i |-> n, s |-> ""]
StrValue(t) == [type |-> "str", i |-> 0, s |-> t]

\* str(v)
Str(v) ==
    IF v.type = "int" THEN IntStr(v.i)
    ELSE IF v.type = "str" THEN v.s
    ELSE "None"

\* a field that renders None like any other value
CsvField_NoneAsText(v) == Str(v)

\* str(v) if v is not None else ""
CsvField(v) == IF v.type # "none" THEN Str(v) ELSE ""

\* sep.join(parts)
RECURSIVE Join(_, _)
Join(parts, sep) ==
    IF Len(parts) = 0 THEN ""
    ELSE IF Len(parts) = 1 THEN parts[1]
    ELSE parts[1] \o sep \o Join(Tail(parts), sep)

\* ",".join(str(v) if v is not None else "" for v in row)
CsvLine(row) == Join([j \in 1..Len(row) |-> CsvField(row[j])], ",")

\* _execute_readonly_query, from "if not columns" to the return
csv_lines(columns, rows) ==
    IF Len(columns) = 0 THEN SentinelQuery
    ELSE Join(<<Join(columns, ",")>> \o [k \in 1..Len(rows) |-> CsvLine(rows[k])], "\n")

MaxCsvRows == 2

CsvColumnNames == {<<>>, <<"id">>, <<"id", "name">>, <<"id", "first\nlast">>}

CsvValues == {None, IntValue(0), IntValue(12), StrValue("a"), StrValue("x,y"), StrValue("a\nb")}

\* rows as wide as the description; no description, no rows
CsvRowsFor(columns) ==
    IF Len(columns) = 0 THEN {<<>>}
    ELSE UNION {[1..n -> [1..Len(columns) -> CsvValues]] : n \in 0..MaxCsvRows}

InitCsv ==
    /\ csvColumns \in CsvColumnNames
    /\ csvRows \in CsvRowsFor(csvColumns)
    /\ csvState = "input"
    /\ csvOut = ""
    /\ ValidatorIdle
    /\ NsIdle
    /\ SchemaIdle
    /\ StartupIdle
    /\ ConverterIdle
    /\ RaceIdle
    /\ ToolIdle

FormatCsv ==
    /\ csvState = "input"
    /\ csvOut' = csv_lines(csvColumns, csvRows)
    /\ csvState' = "done"
    /\ UNCHANGED <<csvColumns, csvRows, validatorVars, nsVars, schemaVars, startupVars,
                   converterVars, raceVars, toolVars>>

SpecCsv == InitCsv /\ [][FormatCsv]_vars

-----------------------------------------------------------------------------
(* server.py: the namespace prefix of the tool names *)

\* str.endswith(suffix)
EndsWith(text, suffix) ==
    /\ Len(suffix) <= Len(text)
    /\ SubSeq(text, Len(text) - Len(suffix) + 1, Len(text)) = suffix

\* a formatting that appends the separator whatever the prefix ends with
format_namespace_AlwaysAppends(prefix) ==
    IF prefix # "" THEN prefix \o "-" ELSE ""

format_namespace(prefix) ==
    IF prefix # ""
    THEN (IF EndsWith(prefix, "-") THEN prefix ELSE prefix \o "-")
    ELSE ""

\* name=f"{namespace_prefix}query"
QueryToolName(namespace_prefix) == namespace_prefix \o "query"

MaxNsFrags == 3

NsFragments == {"CDW", "-", "a", "_", "q"}

RECURSIVE NamespacesOfLen(_)
NamespacesOfLen(n) ==
    IF n = 0 THEN {""}
    ELSE {p \o f : p \in NamespacesOfLen(n - 1), f \in NsFragments}

Namespaces == UNION {NamespacesOfLen(n) : n \in 0..MaxNsFrags}

InitNamespace ==
    /\ namespace \in Namespaces
    /\ nsState = "input"
    /\ ns = ""
    /\ queryName = ""
    /\ ValidatorIdle
    /\ CsvIdle
    /\ SchemaIdle
    /\ StartupIdle
    /\ ConverterIdle
    /\ RaceIdle
    /\ ToolIdle

\* create_cdw_server: ns = _format_namespace(config.namespace), then
\* register_query_tools(mcp, ns, ...) names the tool
RegisterQueryTool ==
    /\ nsState = "input"
    /\ ns' = format_namespace(namespace)
    /\ queryName' = QueryToolName(ns')
    /\ nsState' = "done"
    /\ UNCHANGED <<namespace, validatorVars, csvVars, schemaVars, startupVars,
                   converterVars, raceVars, toolVars>>

SpecNamespace == InitNamespace /\ [][RegisterQueryTool]_vars

-----------------------------------------------------------------------------
(* schema.py: the schema reference, its cache and the three schema tools.    *)
(* A JSON value that may be absent or null is a sequence of length 0 or 1.   *)

LowerOf == [c \in UpperSet |->
              Char(LowerLetters, CHOOSE i \in 1..Len(UpperLetters) : Char(UpperLetters, i) = c)]

\* str.lower()
RECURSIVE Lower(_)
Lower(text) ==
    IF Len(text) = 0 THEN ""
    ELSE IF Len(text) = 1 THEN (IF text \in UpperSet THEN LowerOf[text] ELSE text)
    ELSE LET half == Len(text) \div 2
         IN  Lower(SubSeq(text, 1, half)) \o Lower(SubSeq(text, half + 1, Len(text)))

\* sub in text
Contains(text, sub) ==
    \E i \in 1..(Len(text) - Len(sub) + 1) : SubSeq(text, i, i + Len(sub) - 1) = sub

SchemaRefPath == "/opt/CDW_MedCP/data/schema_reference.json"

MsgSchemaMissing == "Schema reference not found at " \o SchemaRefPath

TABLE_NOTES ==
    [PatientDim |->
        "SCD Type 2 table: multiple historical rows per patient. "
        \o "Use IsCurrent=1 for current record, or ORDER BY StartDate DESC for most recent. "
        \o "Some patients may not have IsCurrent=1; always fall back to MAX(StartDate).",
     LabComponentResultFact |->
        "NumericValue is de-identified (contains 'DEID'). Use the Value column (string) "
        \o "for actual numeric results. ReferenceValues is a combined string (e.g., 'Low: 10 High: 61'). "
        \o "Use Flag and Abnormal columns for abnormality indicators. "
        \o "There is no TextValue, ReferenceLow, ReferenceHigh, or AbnormalFlag column.",
     LabComponentDim |->
        "The LOINC code column is named LoincCode (not Loinc).",
     MedicationDim |->
        "Pre-Epic legacy records show *Unspecified for GenericName, TherapeuticClass, "
        \o "Strength, Form. Only Name (e.g., 'COPAXONE') is reliable for those records."]

\* the table-description record the file holds under a table name
ColumnInfo(name, description, queryable) ==
    [name |-> name, description |-> description, data_type |-> "bigint",
     queryable |-> queryable, note |-> "use the base column"]

TableInfo(name) ==
    IF Lower(name) = "patientdim"
    THEN [description |-> <<"Patients, as spelled " \o name>>,
          has_patient_data |-> TRUE, has_encounter_data |-> FALSE,
          patient_key_column |-> <<"PatientKey">>, encounter_key_column |-> <<>>,
          columns |-> <<ColumnInfo("PatientKey", <<"Surrogate key">>, <<>>),
                        ColumnInfo("Sex", <<>>, <<>>)>>]
    ELSE IF Lower(name) = "encounterfact"
    THEN [description |-> <<>>,
          has_patient_data |-> TRUE, has_encounter_data |-> TRUE,
          patient_key_column |-> <<"PatientKey">>, encounter_key_column |-> <<"EncounterKey">>,
          columns |-> <<ColumnInfo("EncounterKey", <<"Key of the encounter">>, <<>>),
                        ColumnInfo("DateKeyValue", <<"Date of the encounter">>, <<FALSE>>)>>]
    ELSE [description |-> <<"Table " \o name>>,
          has_patient_data |-> FALSE, has_encounter_data |-> FALSE,
          patient_key_column |-> <<>>, encounter_key_column |-> <<>>,
          columns |-> <<>>]

\* contents the schema reference file may have: its table names in file order
Schemas ==
    {<<>>,
     <<"PatientDim">>,
     <<"PATIENTDIM", "PatientDim">>,
     <<"PatientDim", "patientdim">>,
     <<"EncounterFact", "medicationdim">>,
     <<"EncounterFact", "LabComponentDim", "LabComponentResultFact", "MedicationDim",
       "PatientDim">>}

LookupNames ==
    {"PatientDim", "patientdim", "PATIENTDIM", "LabComponentDim", "labcomponentresultfact",
     "MedicationDim", "medicationdim", "EncounterFact", "encounterFACT", "NoSuchTable", ""}

Keywords == {"patient", "KEY", "date", "zzz"}

\* dict.get(key, default) on a value that may be absent
Get(value, default) == IF Len(value) = 0 THEN default ELSE value[1]

-----------------------------------------------------------------------------
(* _get_schema_ref *)

\* a load that reads the file again whenever it is there
SchemaAfterLoad_Reloading ==
    IF refExists THEN [loaded |-> TRUE, tables |-> refTables]
    ELSE schema_ref

\* a load that caches an empty reference when the file is not there
SchemaAfterLoad_CachingFailure ==
    IF schema_ref.loaded THEN schema_ref
    ELSE [loaded |-> TRUE, tables |-> IF refExists THEN refTables ELSE <<>>]

\* the value of _schema_ref when _get_schema_ref returns or raises
SchemaAfterLoad ==
    IF schema_ref.loaded THEN schema_ref
    ELSE IF refExists THEN [loaded |-> TRUE, tables |-> refTables]
    ELSE schema_ref

Failed(message) == [kind |-> "error", error |-> message, value |-> <<>>]

\* a schema tool: _get_schema_ref(), which raises when the cache is empty and the
\* file is not there, then the tool's own statements, whose outcome on the schema
\* that _get_schema_ref() returns is given
SchemaTool(name, arg, outcome) ==
    /\ sOp' = name
    /\ sArg' = arg
    /\ sChecked' = ~schema_ref.loaded
    /\ schema_ref' = SchemaAfterLoad
    /\ refReads' = IF ~schema_ref.loaded /\ refExists THEN refReads + 1 ELSE refReads
    /\ sOut' = IF ~schema_ref.loaded /\ ~refExists THEN Failed(MsgSchemaMissing) ELSE outcome
    /\ UNCHANGED <<refExists, refTables, validatorVars, csvVars, nsVars, startupVars,
                   converterVars, raceVars, toolVars>>

-----------------------------------------------------------------------------
(* The schema tools *)

Json(value) == [kind |-> "json", error |-> "", value |-> <<value>>]

\* one entry of get_database_overview; a key that is left out is an empty sequence
OverviewEntry(name) ==
    LET info == TableInfo(name)
    IN  [table_name |-> name,
         description |-> Get(info.description, ""),
         has_patient_data |-> info.has_patient_data,
         has_encounter_data |-> info.has_encounter_data,
         column_count |-> Len(info.columns),
         patient_key_column |-> info.patient_key_column,
         encounter_key_column |-> info.encounter_key_column]

get_database_overview ==
    LET schema == SchemaAfterLoad.tables
    IN  SchemaTool("get_database_overview", "",
                   Json([overview |-> [i \in 1..Len(schema) |-> OverviewEntry(schema[i])]]))

\* a resolution that only ever looks the name up as it was given
Resolved_ExactOnly(schema, table_name) ==
    IF \E i \in 1..Len(schema) : schema[i] = table_name THEN <<table_name>>
    ELSE <<>>

\* the key describe_table settles on, none when it raises
Resolved(schema, table_name) ==
    LET SameIgnoringCase(k) == Lower(k) = Lower(table_name)
        matches == SelectSeq(schema, SameIgnoringCase)
    IN  IF \E i \in 1..Len(schema) : schema[i] = table_name THEN <<table_name>>
        ELSE IF Len(matches) > 0 THEN <<matches[1]>>
        ELSE <<>>

\* notes for every table of the reference, whatever its name
DataNotes_ForEveryTable(table_name) ==
    IF table_name \in DOMAIN TABLE_NOTES THEN <<TABLE_NOTES[table_name]>>
    ELSE <<TABLE_NOTES.PatientDim>>

\* result["data_notes"], left out when the table has no note
DataNotes(table_name) ==
    IF table_name \in DOMAIN TABLE_NOTES THEN <<TABLE_NOTES[table_name]>>
    ELSE <<>>

Description(table_name) ==
    LET info == TableInfo(table_name)
    IN  [table_name |-> table_name,
         description |-> Get(info.description, ""),
         has_patient_data |-> info.has_patient_data,
         patient_key_column |-> info.patient_key_column,
         encounter_key_column |-> info.encounter_key_column,
         columns |-> info.columns,
         data_notes |-> DataNotes(table_name)]

describe_table(table_name) ==
    LET resolved == Resolved(SchemaAfterLoad.tables, table_name)
    IN  SchemaTool("describe_table", table_name,
                   IF Len(resolved) = 0
                   THEN Failed("Table '" \o table_name \o "' not found. "
                               \o "Use get_database_overview to see available tables.")
                   ELSE Json(Description(resolved[1])))

\* the columns of a table that match the keyword, as search_schema lists them
MatchingColumns(info, keyword_lower) ==
    LET ColMatches(col) ==
            \/ Contains(Lower(col.name), keyword_lower)
            \/ Contains(Lower(Get(col.description, "")), keyword_lower)
        Entry(col) ==
            [column_name |-> col.name,
             description |-> Get(col.description, ""),
             data_type |-> col.data_type,
             queryable |-> IF col.queryable = <<FALSE>> THEN <<FALSE>> ELSE <<>>,
             note |-> IF col.queryable = <<FALSE>> THEN <<col.note>> ELSE <<>>]
        found == SelectSeq(info.columns, ColMatches)
    IN  [i \in 1..Len(found) |-> Entry(found[i])]

SearchResults(schema, keyword) ==
    LET keyword_lower == Lower(keyword)
        TableMatch(name) ==
            \/ Contains(Lower(name), keyword_lower)
            \/ Contains(Lower(Get(TableInfo(name).description, "")), keyword_lower)
        Listed(name) ==
            TableMatch(name) \/ Len(MatchingColumns(TableInfo(name), keyword_lower)) > 0
        found == SelectSeq(schema, Listed)
    IN  [i \in 1..Len(found) |->
            [table_name |-> found[i],
             table_description |-> Get(TableInfo(found[i]).description, ""),
             matching_columns |-> MatchingColumns(TableInfo(found[i]), keyword_lower)]]

search_schema(keyword) ==
    LET results == SearchResults(SchemaAfterLoad.tables, keyword)
    IN  SchemaTool("search_schema", keyword,
                   IF Len(results) = 0
                   THEN [kind |-> "text", error |-> "",
                         value |-> <<[text |-> "No tables or columns matching '"
                                               \o keyword \o "' found."]>>]
                   ELSE Json([results |-> results]))

-----------------------------------------------------------------------------
(* The file at _SCHEMA_REF_PATH is written and removed by whoever deploys     *)
(* the server; the tools only read it.                                        *)

InstallReference(tables) ==
    /\ ~(refExists /\ refTables = tables)
    /\ refExists' = TRUE
    /\ refTables' = tables
    /\ UNCHANGED <<schema_ref, refReads, sOp, sArg, sChecked, sOut, validatorVars,
                   csvVars, nsVars, startupVars, converterVars, raceVars, toolVars>>

RemoveReference ==
    /\ refExists
    /\ refExists' = FALSE
    /\ refTables' = <<>>
    /\ UNCHANGED <<schema_ref, refReads, sOp, sArg, sChecked, sOut, validatorVars,
                   csvVars, nsVars, startupVars, converterVars, raceVars, toolVars>>

InitSchema ==
    /\ refExists \in BOOLEAN
    /\ refTables \in (IF refExists THEN Schemas ELSE {<<>>})
    /\ schema_ref = [loaded |-> FALSE, tables |-> <<>>]
    /\ refReads = 0
    /\ sOp = ""
    /\ sArg = ""
    /\ sChecked = FALSE
    /\ sOut = [kind |-> "none", error |-> "", value |-> <<>>]
    /\ ValidatorIdle
    /\ CsvIdle
    /\ NsIdle
    /\ StartupIdle
    /\ ConverterIdle
    /\ RaceIdle
    /\ ToolIdle

NextSchema ==
    \/ get_database_overview
    \/ \E table_name \in LookupNames : describe_table(table_name)
    \/ \E keyword \in Keywords : search_schema(keyword)
    \/ \E tables \in Schemas : InstallReference(tables)
    \/ RemoveReference

SpecSchema == InitSchema /\ [][NextSchema]_vars

-----------------------------------------------------------------------------
(* Startup: cli.py main, server.py main and create_cdw_server.                *)
(* A value of the environment that may be unset is a sequence of length 0     *)
(* or 1.                                                                      *)

Entrypoints == {"cli", "server", "mcpb"}

CredentialValues == {<<>>, <<"">>, <<"cdw">>}

LogLevels == {"INFO", "debug", "verbose"}

\* the names getattr(logging, ...) finds a level under
LoggingLevels == {"CRITICAL", "FATAL", "ERROR", "WARNING", "WARN", "INFO", "DEBUG", "NOTSET"}

MsgCredentials == "All clinical database credentials must be provided"

\* the register calls of create_cdw_server, in order: the arguments each call
\* passes, the parameters the called function declares, the tools it registers
RegisterCalls ==
    <<[function |-> "register_schema_tools", args |-> <<"mcp", "ns">>, params |-> 2,
       tools |-> {"get_database_overview", "describe_table", "search_schema"}],
      [function |-> "register_query_tools",
       args |-> <<"mcp", "ns", "db_config", "schema">>, params |-> 4,
       tools |-> {"query", "get_patient_demographics", "get_encounters", "get_medications",
                  "get_diagnoses", "get_labs"}],
      [function |-> "register_notes_tools",
       args |-> <<"mcp", "ns", "db_config", "schema">>, params |-> 3,
       tools |-> {"search_notes", "get_note"}],
      [function |-> "register_export_tools",
       args |-> <<"mcp", "ns", "db_config">>, params |-> 3,
       tools |-> {"export_query_to_csv"}],
      [function |-> "register_concept_tools",
       args |-> <<"mcp", "ns", "db_config", "schema">>, params |-> 3,
       tools |-> {"search_diagnoses_by_code", "search_medications_by_code",
                  "search_procedures_by_code"}],
      [function |-> "register_stats_tools",
       args |-> <<"mcp", "ns", "db_config", "schema">>, params |-> 4,
       tools |-> {"summarize_table", "cohort_summary"}]>>

\* the process ends with an exception
Exits(exception) ==
    /\ spc' = "failed"
    /\ startErr' = exception

\* cli.py main: logging.basicConfig(level=getattr(logging, log_level.upper())),
\* then server_main(...)
cli_main ==
    /\ spc = "start"
    /\ entry = "cli"
    /\ IF Upper(logLevel) \in LoggingLevels
       THEN spc' = "main" /\ UNCHANGED startErr
       ELSE Exits("AttributeError")
    /\ UNCHANGED <<entry, creds, logLevel, config, regNext, registered, prompts,
                   validatorVars, csvVars, nsVars, schemaVars, converterVars, raceVars,
                   toolVars>>

\* server.py and server/main.py run as scripts: main(...) with the environment
script_main ==
    /\ spc = "start"
    /\ entry \in {"server", "mcpb"}
    /\ spc' = "main"
    /\ UNCHANGED <<entry, creds, logLevel, config, regNext, registered, prompts,
                   startErr, validatorVars, csvVars, nsVars, schemaVars, converterVars,
                   raceVars, toolVars>>

\* a check that asks for the server name only
AllProvided_ServerOnly(credentials) == Len(credentials[1]) = 1 /\ credentials[1][1] # ""

\* all([...]): every credential is set and not empty
AllProvided(credentials) ==
    \A i \in 1..Len(credentials) : Len(credentials[i]) = 1 /\ credentials[i][1] # ""

\* server.py main, up to the construction of the configuration
main ==
    /\ spc = "main"
    /\ IF ~AllProvided(creds)
       THEN Exits("ValueError: " \o MsgCredentials) /\ UNCHANGED config
       ELSE /\ config' = <<[clinical_db |-> creds, log_level |-> logLevel]>>
            /\ spc' = "build"
            /\ UNCHANGED startErr
    /\ UNCHANGED <<entry, creds, logLevel, regNext, registered, prompts, validatorVars,
                   csvVars, nsVars, schemaVars, converterVars, raceVars, toolVars>>

\* create_cdw_server, up to the first register call
create_cdw_server ==
    /\ spc = "build"
    /\ IF Upper(config[1].log_level) \in LoggingLevels
       THEN spc' = "register" /\ regNext' = 1 /\ UNCHANGED startErr
       ELSE Exits("AttributeError") /\ UNCHANGED regNext
    /\ UNCHANGED <<entry, creds, logLevel, config, registered, prompts, validatorVars,
                   csvVars, nsVars, schemaVars, converterVars, raceVars, toolVars>>

\* a call with more positional arguments than the function declares parameters
\* raises TypeError
Accepts(call) == Len(call.args) <= call.params

\* create_cdw_server: one register call; after the last one the prompts are
\* registered, the server is returned to main, and main enters mcp.run()
register_tools ==
    /\ spc = "register"
    /\ regNext \in 1..Len(RegisterCalls)
    /\ IF ~Accepts(RegisterCalls[regNext])
       THEN /\ Exits("TypeError: " \o RegisterCalls[regNext].function)
            /\ UNCHANGED <<regNext, registered, prompts>>
       ELSE /\ registered' = registered \cup RegisterCalls[regNext].tools
            /\ regNext' = regNext + 1
            /\ IF regNext = Len(RegisterCalls)
               THEN /\ prompts' = {"clinical_data_exploration", "cohort_building",
                                   "notes_analysis"}
                    /\ spc' = "running"
               ELSE UNCHANGED <<prompts, spc>>
            /\ UNCHANGED startErr
    /\ UNCHANGED <<entry, creds, logLevel, config, validatorVars, csvVars, nsVars,
                   schemaVars, converterVars, raceVars, toolVars>>

InitStartup ==
    /\ entry \in Entrypoints
    /\ creds \in [1..4 -> CredentialValues]
    /\ logLevel \in LogLevels
    /\ spc = "start"
    /\ config = <<>>
    /\ regNext = 0
    /\ registered = {}
    /\ prompts = {}
    /\ startErr = ""
    /\ ValidatorIdle
    /\ CsvIdle
    /\ NsIdle
    /\ SchemaIdle
    /\ ConverterIdle
    /\ RaceIdle
    /\ ToolIdle

NextStartup ==
    \/ cli_main
    \/ script_main
    \/ main
    \/ create_cdw_server
    \/ register_tools

SpecStartup == InitStartup /\ [][NextStartup]_vars

-----------------------------------------------------------------------------
(* scripts/parse_data_dictionary.py: the converter.                           *)
(* A cell that may be empty is a sequence of length 0 or 1.                   *)

MaxSheetRows == 2

\* the characters of table names, in the order of their code points
CodePointOrder == DigitChars \o UpperLetters \o "_" \o LowerLetters

CodePoint(c) == CHOOSE i \in 1..Len(CodePointOrder) : Char(CodePointOrder, i) = c

\* a < b on str
RECURSIVE Less(_, _)
Less(a, b) ==
    IF Len(b) = 0 THEN FALSE
    ELSE IF Len(a) = 0 THEN TRUE
    ELSE IF Head(a) # Head(b) THEN CodePoint(Head(a)) < CodePoint(Head(b))
    ELSE Less(Tail(a), Tail(b))

\* a merge that lists the names in no particular order
RECURSIVE sorted_Unordered(_)
sorted_Unordered(names) ==
    IF names = {} THEN <<>>
    ELSE LET first == CHOOSE x \in names : \A y \in names : x = y \/ Less(y, x)
         IN  <<first>> \o sorted_Unordered(names \ {first})

\* sorted(all_table_names)
RECURSIVE sorted(_)
sorted(names) ==
    IF names = {} THEN <<>>
    ELSE LET first == CHOOSE x \in names : \A y \in names : x = y \/ Less(x, y)
         IN  <<first>> \o sorted(names \ {first})

\* the table-name cell of a row names a table: "if name:"
Named(row) == Len(row.table_name) = 1 /\ row.table_name[1] # ""

\* parse_data_dictionary: the schema written for the rows of the two sheets
parse_data_dictionary(trows, crows) ==
    LET tableNames == {trows[i].table_name[1] : i \in {j \in 1..Len(trows) : Named(trows[j])}}
        columnNames == {crows[i].table_name[1] : i \in {j \in 1..Len(crows) : Named(crows[j])}}
        \* tables[name] is assigned by every row of the name: the last one stays
        LastRow(name) ==
            trows[CHOOSE i \in 1..Len(trows) :
                    /\ trows[i].table_name = <<name>>
                    /\ \A j \in (i + 1)..Len(trows) : trows[j].table_name # <<name>>]
        Columns(name) ==
            LET OfTable(row) == row.table_name = <<name>>
                rows == SelectSeq(crows, OfTable)
            IN  [i \in 1..Len(rows) |->
                    [name |-> rows[i].column_name, ordinal_position |-> rows[i].ordinal_position]]
        Entry(name) ==
            IF name \in tableNames
            THEN [table_name |-> name,
                  description |-> LastRow(name).table_description,
                  has_patient_data |-> LastRow(name).has_pat_specific_data = <<"Y">>,
                  has_encounter_data |-> <<LastRow(name).has_enc_specific_data = <<"Y">>>>,
                  columns |-> Columns(name)]
            ELSE [table_name |-> name,
                  description |-> <<"">>,
                  has_patient_data |-> FALSE,
                  has_encounter_data |-> <<>>,
                  columns |-> Columns(name)]
        names == sorted(tableNames \cup columnNames)
    IN  [i \in 1..Len(names) |-> Entry(names[i])]

SheetTableNames == {<<>>, <<"Foo">>, <<"bar">>, <<"Bar_2">>}

TablesRowValues ==
    {[table_name |-> n, table_description |-> a[1], has_pat_specific_data |-> a[2],
      has_enc_specific_data |-> a[3]] :
        n \in SheetTableNames,
        a \in {<<<<"first">>, <<"Y">>, <<"N">>>>, <<<<>>, <<"N">>, <<"Y">>>>}}

ColumnsRowValues ==
    {[table_name |-> n, column_name |-> c[1], ordinal_position |-> c[2]] :
        n \in SheetTableNames, c \in {<<"PatientKey", 2>>, <<"Sex", 1>>}}

\* the sheets of up to MaxSheetRows rows
SheetsOf(values) == UNION {[1..n -> values] : n \in 0..MaxSheetRows}

InitConverter ==
    /\ tables_rows \in SheetsOf(TablesRowValues)
    /\ cols_rows \in SheetsOf(ColumnsRowValues)
    /\ convState = "input"
    /\ schemaOut = <<>>
    /\ ValidatorIdle
    /\ CsvIdle
    /\ NsIdle
    /\ SchemaIdle
    /\ StartupIdle
    /\ RaceIdle
    /\ ToolIdle

Convert ==
    /\ convState = "input"
    /\ schemaOut' = parse_data_dictionary(tables_rows, cols_rows)
    /\ convState' = "done"
    /\ UNCHANGED <<tables_rows, cols_rows, validatorVars, csvVars, nsVars, schemaVars,
                   startupVars, raceVars, toolVars>>

SpecConverter == InitConverter /\ [][Convert]_vars

-----------------------------------------------------------------------------
(* tools/schema.py, _get_schema_ref run by several callers at once: one step  *)
(* per read or write of the global _schema_ref and per access to the file.    *)
(* The file stays as it is while the callers run.                             *)

RaceCallers == 2

MaxCallsEach == 2

Callers == 1..RaceCallers

NotCalled == [kind |-> "none", tables |-> <<>>]

\* a cache that adds what was parsed to what it holds
Stored_Appending(parsed) == [loaded |-> TRUE, tables |-> schema_ref.tables \o parsed]

\* _schema_ref = json.load(f): the name is bound to the finished dict
Stored(parsed) == [loaded |-> TRUE, tables |-> parsed]

\* the caller moves on
Moves(caller, to) ==
    /\ racers' = [racers EXCEPT ![caller] = to]
    /\ UNCHANGED <<refExists, refTables, sOp, sArg, sChecked, sOut, validatorVars, csvVars,
                   nsVars, startupVars, converterVars, toolVars>>

\* a tool calls _get_schema_ref()
Enter(caller) ==
    /\ racers[caller].pc = "idle"
    /\ racers[caller].calls < MaxCallsEach
    /\ Moves(caller, [pc |-> "is_none", parsed |-> <<>>, result |-> NotCalled,
                      calls |-> racers[caller].calls + 1])
    /\ UNCHANGED <<schema_ref, refReads>>

\* if _schema_ref is None:
IsNone(caller) ==
    /\ racers[caller].pc = "is_none"
    /\ Moves(caller, [racers[caller] EXCEPT
                          !.pc = IF schema_ref.loaded THEN "return" ELSE "exists"])
    /\ UNCHANGED <<schema_ref, refReads>>

\* if not _SCHEMA_REF_PATH.exists(): raise ToolError(...)
PathExists(caller) ==
    /\ racers[caller].pc = "exists"
    /\ Moves(caller, IF refExists
                     THEN [racers[caller] EXCEPT !.pc = "load"]
                     ELSE [racers[caller] EXCEPT
                               !.pc = "idle",
                               !.result = [kind |-> "error", tables |-> <<>>]])
    /\ UNCHANGED <<schema_ref, refReads>>

\* with open(_SCHEMA_REF_PATH) as f: json.load(f)
JsonLoad(caller) ==
    /\ racers[caller].pc = "load"
    /\ Moves(caller, [racers[caller] EXCEPT !.pc = "store", !.parsed = <<refTables>>])
    /\ refReads' = refReads + 1
    /\ UNCHANGED schema_ref

\* _schema_ref = (the parsed value)
StoreGlobal(caller) ==
    /\ racers[caller].pc = "store"
    /\ schema_ref' = Stored(racers[caller].parsed[1])
    /\ Moves(caller, [racers[caller] EXCEPT !.pc = "return"])
    /\ UNCHANGED refReads

\* return _schema_ref
ReturnGlobal(caller) ==
    /\ racers[caller].pc = "return"
    /\ Moves(caller, [racers[caller] EXCEPT
                          !.pc = "idle",
                          !.result = [kind |-> IF schema_ref.loaded THEN "schema" ELSE "None",
                                      tables |-> schema_ref.tables]])
    /\ UNCHANGED <<schema_ref, refReads>>

InitRace ==
    /\ refExists \in BOOLEAN
    /\ refTables \in (IF refExists THEN Schemas ELSE {<<>>})
    /\ schema_ref = [loaded |-> FALSE, tables |-> <<>>]
    /\ refReads = 0
    /\ sOp = ""
    /\ sArg = ""
    /\ sChecked = FALSE
    /\ sOut = [kind |-> "none", error |-> "", value |-> <<>>]
    /\ racers = [caller \in Callers |->
                    [pc |-> "idle", parsed |-> <<>>, result |-> NotCalled, calls |-> 0]]
    /\ ValidatorIdle
    /\ CsvIdle
    /\ NsIdle
    /\ StartupIdle
    /\ ConverterIdle
    /\ ToolIdle

NextRace ==
    \E caller \in Callers :
        \/ Enter(caller)
        \/ IsNone(caller)
        \/ PathExists(caller)
        \/ JsonLoad(caller)
        \/ StoreGlobal(caller)
        \/ ReturnGlobal(caller)

\* the interpreter keeps running a thread that can run
SpecRace == InitRace /\ [][NextRace]_vars /\ WF_vars(NextRace)

-----------------------------------------------------------------------------
(* What the database makes of a text: T-SQL skips "--" comments and reads    *)
(* '...' as one string literal, whatever the literal holds                   *)

\* where the first "--" or quote at or after position i is (0: there is none)
FirstMarker(s, i) ==
    LET marks == {j \in i..Len(s) :
                     Char(s, j) = "'" \/ (j < Len(s) /\ SubSeq(s, j, j + 1) = "--")}
    IN  IF marks = {} THEN 0 ELSE CHOOSE j \in marks : \A k \in marks : j <= k

\* where the first quote at or after position i is (0: there is none)
FirstQuote(s, i) ==
    LET quotes == {j \in i..Len(s) : Char(s, j) = "'"}
    IN  IF quotes = {} THEN 0 ELSE CHOOSE j \in quotes : \A k \in quotes : j <= k

\* the text with comments removed and every string literal emptied
RECURSIVE SqlCodeFrom(_, _)
SqlCodeFrom(s, i) ==
    LET mark == FirstMarker(s, i)
        newline == FirstNewline(s, mark)
        closing == FirstQuote(s, mark + 1)
    IN  IF mark = 0 THEN SubSeq(s, i, Len(s))
        ELSE IF Char(s, mark) = "'"
        THEN IF closing = 0 THEN SubSeq(s, i, mark)
             ELSE SubSeq(s, i, mark) \o "'" \o SqlCodeFrom(s, closing + 1)
        ELSE IF newline = 0 THEN SubSeq(s, i, mark - 1)
        ELSE SubSeq(s, i, mark - 1) \o SqlCodeFrom(s, newline)

SqlCode(text) == SqlCodeFrom(text, 1)

\* kw stands at position i of text as a whole word, in any letter case
WordAt(text, kw, i) ==
    /\ i + Len(kw) - 1 <= Len(text)
    /\ Upper(SubSeq(text, i, i + Len(kw) - 1)) = kw
    /\ (i = 1 \/ ~IsWord(Char(text, i - 1)))
    /\ (i + Len(kw) > Len(text) \/ ~IsWord(Char(text, i + Len(kw))))

OccursAsWord(text, kw) == \E i \in 1..Len(text) : WordAt(text, kw, i)

\* parentheses open before position i
Depth(text, i) ==
    Cardinality({j \in 1..(i - 1) : Char(text, j) = "("})
    - Cardinality({j \in 1..(i - 1) : Char(text, j) = ")"})

DataModifyingKeywords ==
    {"INSERT", "UPDATE", "DELETE", "MERGE", "DROP", "ALTER", "CREATE", "TRUNCATE",
     "EXEC", "EXECUTE"}

\* the database reads a data-modifying keyword at statement level
Modifies(text) ==
    LET code == SqlCode(text)
    IN  \E kw \in DataModifyingKeywords :
            \E i \in 1..Len(code) : WordAt(code, kw, i) /\ Depth(code, i) <= 0

\* a semicolon, optional whitespace, then a word character
SemicolonThenWord(text) ==
    \E i \in 1..Len(text) :
       /\ Char(text, i) = ";"
       /\ \E j \in (i + 1)..Len(text) :
             /\ IsWord(Char(text, j))
             /\ \A k \in (i + 1)..(j - 1) : IsSpace(Char(text, k))

-----------------------------------------------------------------------------
(* Vocabulary of the properties of the validator *)

BlockedKeywords ==
    {"MERGE", "CREATE", "SET", "DELETE", "REMOVE", "ADD", "INSERT", "UPDATE", "DROP",
     "ALTER", "TRUNCATE", "GRANT", "REVOKE", "EXEC", "EXECUTE", "SP_"}

WriteStatements ==
    {"INSERT", "UPDATE", "DELETE", "DROP", "ALTER", "TRUNCATE", "EXEC", "EXECUTE"}

ReadStatements == {"SELECT", "WITH", "DECLARE"}

\* the text begins, after leading whitespace, with kw in any letter case
BeginsWith(text, kw) ==
    \E i \in 1..Len(text) :
       /\ \A j \in 1..(i - 1) : IsSpace(Char(text, j))
       /\ i + Len(kw) - 1 <= Len(text)
       /\ Upper(SubSeq(text, i, i + Len(kw) - 1)) = kw

\* position i follows a "--" marker on its line, or is part of the marker
InComment(text, i) ==
    \E j \in 1..i :
       /\ j < Len(text)
       /\ SubSeq(text, j, j + 1) = "--"
       /\ \A k \in j..i : Char(text, k) # "\n"

\* the characters of text[lo..hi] that are in no comment
RECURSIVE VisibleRange(_, _, _)
VisibleRange(text, lo, hi) ==
    IF lo > hi THEN ""
    ELSE IF lo = hi THEN (IF InComment(text, lo) THEN "" ELSE Char(text, lo))
    ELSE LET mid == (lo + hi) \div 2
         IN  VisibleRange(text, lo, mid) \o VisibleRange(text, mid + 1, hi)

Visible(text) == VisibleRange(text, 1, Len(text))

Semicolons(text) == {i \in 1..Len(text) : Char(text, i) = ";"}

NoContentAfterSemicolon(text) ==
    \A i \in Semicolons(text) : \A j \in (i + 1)..Len(text) : IsSpace(Char(text, j))

\* begins with SELECT, WITH or DECLARE, holds no blocked keyword as a whole word
\* and nothing after a semicolon
PlainRead(text) ==
    /\ \E kw \in ReadStatements : BeginsWith(text, kw)
    /\ \A kw \in BlockedKeywords : ~OccursAsWord(text, kw)
    /\ NoContentAfterSemicolon(text)

-----------------------------------------------------------------------------
(* Properties of the tools and of the validator *)

\* C1: no tool invocation ever hands the backend's execute a text in which the
\* database reads a data-modifying statement, whatever comments, quoted strings or
\* semicolons the caller's text holds.  (Violated: the validator strips "--" inside
\* a string literal, the database does not.)
C1_NoDataModifyingSqlExecuted == execCount > 0 => ~Modifies(lastExecuted)

\* C2: a text that begins, after leading whitespace, with INSERT, UPDATE, DELETE,
\* DROP, ALTER, TRUNCATE, EXEC or EXECUTE in any letter case is rejected, and so is
\* a text whose comment-stripped form holds one of them as a whole word, whatever
\* it begins with.
C2_WriteStatementsRejected ==
    (/\ vstate = "done"
     /\ \/ \E kw \in WriteStatements : BeginsWith(vq, kw)
        \/ \E kw \in WriteStatements : OccursAsWord(Visible(vq), kw))
    => vres = FALSE

C2_Witness ==
    /\ vstate = "done"
    /\ BeginsWith(vq, "WITH")
    /\ \E i \in 1..Len(Visible(vq)) :
          /\ WordAt(Visible(vq), "UPDATE", i)
          /\ SubSeq(Visible(vq), i, i + 5) = "update"
    /\ vres = FALSE

\* C3: a text that begins with SELECT, WITH or DECLARE in any letter case, holds
\* none of the sixteen blocked keywords as a whole word and has nothing after a
\* semicolon is accepted.
C3_PlainReadsAccepted == (vstate = "done" /\ PlainRead(vq)) => vres = TRUE

C3_Witness ==
    /\ vstate = "done"
    /\ PlainRead(vq)
    /\ BeginsWith(vq, "DECLARE")
    /\ Semicolons(vq) # {}
    /\ vres = TRUE

\* C4: a query in which the database reads a semicolon, optional whitespace and
\* then a word character is rejected, and "SELECT 1;" is accepted.  (Violated: a
\* chained statement behind a string literal holding "--" is accepted.)
C4_ChainingRejected ==
    vstate = "done" =>
        /\ SemicolonThenWord(SqlCode(vq)) => vres = FALSE
        /\ vq = "SELECT 1;" => vres = TRUE

\* C5: an accepted query holds at most one semicolon in its comment-stripped
\* text, and nothing but whitespace follows that semicolon.  (Violated: only a
\* word character after the semicolon is refused.)
C5_AcceptedIsSingleStatement ==
    (vstate = "done" /\ vres = TRUE) =>
        /\ Cardinality(Semicolons(Visible(vq))) <= 1
        /\ NoContentAfterSemicolon(Visible(vq))

\* C6: a query that is valid apart from its comments, and whose blocked keywords
\* stand only behind a "--" marker on the same line, is accepted.
C6_KeywordsInCommentsAccepted ==
    (/\ vstate = "done"
     /\ PlainRead(Visible(vq))
     /\ \E kw \in BlockedKeywords : OccursAsWord(vq, kw))
    => vres = TRUE

C6_Witness ==
    /\ vstate = "done"
    /\ PlainRead(Visible(vq))
    /\ OccursAsWord(vq, "DROP")
    /\ BeginsWith(vq, "SELECT")
    /\ \A i \in 1..Len(vq) : Char(vq, i) # "'"
    /\ vres = TRUE

\* the arguments of the invocation in progress fail a check made before connecting
ValidationFails ==
    /\ tool # ""
    /\ \/ /\ tool \in CsvTools \cup {"export_query_to_csv", "cohort_summary"}
          /\ ~is_read_only_clinical_query(sql)
       \/ tool = "export_query_to_csv" /\ ~parentExists
       \/ tool = "summarize_table" /\ ~ValidTableName(sql)

\* C7: an invocation whose SQL is rejected by the validator, whose table name is
\* invalid (summarize_table) or whose destination directory is missing
\* (export_query_to_csv) raises that validation error, and no invocation that ends
\* with a validation error has called get_connection.
C7_ValidationBeforeConnection ==
    /\ ValidationFails => pc = "raised" /\ err \in ValidationErrors
    /\ (pc = "raised" /\ err \in ValidationErrors) =>
          connAttempts = 0 /\ opens = 0 /\ execCount = 0 /\ conn = "none"

C7_Witness ==
    /\ pc = "raised"
    /\ tool = "export_query_to_csv"
    /\ err = MsgDirMissing
    /\ is_read_only_clinical_query(sql)
    /\ connAttempts = 0

\* C8: a connection opened by an invocation is closed exactly once before the
\* invocation returns or raises, on every exit path, and no connection is open
\* between invocations.
C8_ConnectionsClosedOnce ==
    /\ opens \in {0, 1} /\ closes \in {0, 1} /\ closes <= opens
    /\ openConns = opens - closes
    /\ pc \in {"idle", "returned", "raised"} => closes = opens /\ openConns = 0
    /\ (pc \in {"returned", "raised"} /\ opens = 1) => conn = "closed"

C8_Witness ==
    /\ pc = "raised"
    /\ tool = "export_query_to_csv"
    /\ fileExists
    /\ err \in FileErrors
    /\ opens = 1 /\ closes = 1 /\ openConns = 0

\* C9: when opening the connection fails, the invocation ends with the error
\* "Database connection failed: " followed by the original message, has executed
\* no SQL and has no connection to close.
C9_ConnectionFailureReported ==
    connError # "" =>
        /\ pc = "raised"
        /\ err = "Database connection failed: " \o connError
        /\ execCount = 0
        /\ conn = "none" /\ opens = 0 /\ closes = 0 /\ openConns = 0

C9_Witness ==
    /\ pc = "raised"
    /\ connError = "Login failed for user"
    /\ err = "Database connection failed: Login failed for user"
    /\ connAttempts = 1

\* C10: the CSV a query tool returns holds at most as many data rows as the row
\* limit in effect (the caller's row_limit, or 1000), whatever the backend holds.
C10_RowLimitRespected ==
    (pc = "returned" /\ tool \in QueryTools /\ result.kind = "csv") =>
        result.rows <= rowLimit

C10_Witness ==
    /\ pc = "returned"
    /\ tool \in QueryTools
    /\ result.kind = "csv"
    /\ rowLimit > 0
    /\ nrows > rowLimit
    /\ result.rows = rowLimit

-----------------------------------------------------------------------------
(* Vocabulary of the properties of the CSV text *)

NewlinePositions(text) == {p \in 1..Len(text) : Char(text, p) = "\n"}

\* the k-th line of a text, lines being separated by "\n"
LineOf(text, k) ==
    LET nl == NewlinePositions(text)
        before == IF k = 1 THEN 0
                  ELSE CHOOSE p \in nl : Cardinality({q \in nl : q < p}) = k - 2
        after == IF k = Cardinality(nl) + 1 THEN Len(text) + 1
                 ELSE CHOOSE p \in nl : Cardinality({q \in nl : q < p}) = k - 1
    IN  SubSeq(text, before + 1, after - 1)

Lines(text) == [k \in 1..(Cardinality(NewlinePositions(text)) + 1) |-> LineOf(text, k)]

\* a value as a field: empty for None, its text otherwise
Rendered(v) ==
    IF v = None THEN "" ELSE IF v.type = "int" THEN IntStr(v.i) ELSE v.s

\* the fields separated by commas, in order
RECURSIVE CommaJoined(_)
CommaJoined(fields) ==
    IF Len(fields) = 0 THEN ""
    ELSE IF Len(fields) = 1 THEN fields[1]
    ELSE CommaJoined(SubSeq(fields, 1, Len(fields) - 1)) \o "," \o fields[Len(fields)]

\* header line, then one line per row
HeaderAndRowLines(text, columns, rows) ==
    /\ Len(Lines(text)) = Len(rows) + 1
    /\ Lines(text)[1] = CommaJoined(columns)
    /\ \A k \in 1..Len(rows) :
          Lines(text)[k + 1] =
              CommaJoined([j \in 1..Len(rows[k]) |-> Rendered(rows[k][j])])

\* newline characters held by the column names and the values
RECURSIVE NewlinesIn(_)
NewlinesIn(texts) ==
    IF Len(texts) = 0 THEN 0
    ELSE Cardinality(NewlinePositions(texts[1])) + NewlinesIn(Tail(texts))

RECURSIVE Flatten(_)
Flatten(rows) ==
    IF Len(rows) = 0 THEN <<>>
    ELSE [j \in 1..Len(rows[1]) |-> Rendered(rows[1][j])] \o Flatten(Tail(rows))

EmbeddedNewlines(columns, rows) == NewlinesIn(columns \o Flatten(rows))

\* C11 as stated: n + 1 lines (header, then each row's values joined by commas,
\* None as an empty field) for any result with a column; the fixed text for a
\* result without columns.  (Violated: a value or a column name holding a newline
\* is written as it is and adds a line.)
C11_CsvLinesAsStated ==
    csvState = "done" =>
        IF Len(csvColumns) = 0 THEN csvOut = SentinelQuery
        ELSE HeaderAndRowLines(csvOut, csvColumns, csvRows)

\* C11, amended: the text has n + 1 lines plus one for every newline held by a
\* column name or a value; when they hold none, line 1 is the column names joined
\* by commas and line k + 1 the values of row k joined by commas with None as an
\* empty field; a result without columns gives the fixed text.
C11_CsvLines ==
    csvState = "done" =>
        IF Len(csvColumns) = 0 THEN csvOut = SentinelQuery
        ELSE /\ Len(Lines(csvOut)) = Len(csvRows) + 1 + EmbeddedNewlines(csvColumns, csvRows)
             /\ EmbeddedNewlines(csvColumns, csvRows) = 0 =>
                   HeaderAndRowLines(csvOut, csvColumns, csvRows)

C11_Witness ==
    /\ csvState = "done"
    /\ Len(csvColumns) = 2
    /\ Len(csvRows) = 2
    /\ csvRows[1][2] = None
    /\ csvRows[2][1] = IntValue(12)
    /\ EmbeddedNewlines(csvColumns, csvRows) = 0
    /\ Lines(csvOut) = <<"id,name", "a,", "12,x,y">>

\* C12: a CSV-returning tool whose query yields no rows returns normally with the
\* "no results" text, never a table without rows.  (Violated: the text is returned
\* only when the result has no columns; a result with columns and no rows is
\* returned as a header line alone.)
C12_EmptyResultGivesSentinel ==
    (tool \in CsvTools /\ pc \in {"returned", "raised"} /\ pending = "" /\ connError = ""
        /\ execCount > 0 /\ nrows = 0)
    => /\ pc = "returned"
       /\ result.kind = "text"
       /\ result.text = (IF tool \in QueryTools THEN SentinelQuery ELSE SentinelCsv)

LastChar(text) == Char(text, Len(text))

\* C14: the empty prefix is formatted as the empty text; a non-empty prefix as
\* itself, with one "-" appended unless it ends with "-" already; "CDW" and "CDW-"
\* both publish the free-form tool as "CDW-query", the empty prefix as "query";
\* formatting a formatted prefix changes nothing.
C14_NamespaceFormatting ==
    nsState = "done" =>
        /\ namespace = "" => ns = "" /\ queryName = "query"
        /\ (namespace # "" /\ LastChar(namespace) = "-") => ns = namespace
        /\ (namespace # "" /\ LastChar(namespace) # "-") =>
              /\ Len(ns) = Len(namespace) + 1
              /\ SubSeq(ns, 1, Len(namespace)) = namespace
              /\ LastChar(ns) = "-"
        /\ namespace \in {"CDW", "CDW-"} => queryName = "CDW-query"
        /\ queryName = ns \o "query"
        /\ format_namespace(ns) = ns

C14_Witness ==
    /\ nsState = "done"
    /\ namespace = "CDW-"
    /\ ns = "CDW-"
    /\ queryName = "CDW-query"


-----------------------------------------------------------------------------
(* The schema tools: what a call was asked and what it answered *)

\* describe_table has answered from a loaded reference
Described == sOp = "describe_table" /\ schema_ref.loaded

\* the table names the reference in use holds
Held == {schema_ref.tables[i] : i \in 1..Len(schema_ref.tables)}

\* the held names that are the asked name but for the case of their letters
HeldIgnoringCase == {k \in Held : Upper(k) = Upper(sArg)}

\* the position of a held name in the file
PositionOf(k) == CHOOSE i \in 1..Len(schema_ref.tables) : schema_ref.tables[i] = k

\* the answer is the entry the reference holds under k
AnswersEntry(k) ==
    /\ sOut.kind = "json"
    /\ sOut.value[1].table_name = k
    /\ sOut.value[1].description = Get(TableInfo(k).description, "")
    /\ sOut.value[1].columns = TableInfo(k).columns

AnswersTableNotFound ==
    /\ sOut.kind = "error"
    /\ sOut.error = "Table '" \o sArg
                    \o "' not found. Use get_database_overview to see available tables."

\* C15 as stated: a name held exactly is answered with its own entry; a name not
\* held exactly is answered with the entry of a held name that equals it ignoring
\* case, and "patientdim" with the entry of "PatientDim" whenever the reference
\* holds "PatientDim" and no "patientdim"; a name held in neither form is
\* answered with the table-not-found error.
C15_ResolvesAsStated ==
    Described =>
        /\ sArg \in Held => AnswersEntry(sArg)
        /\ (sArg \notin Held /\ HeldIgnoringCase # {}) =>
              \E k \in HeldIgnoringCase : AnswersEntry(k)
        /\ (sArg = "patientdim" /\ "PatientDim" \in Held /\ "patientdim" \notin Held) =>
              AnswersEntry("PatientDim")
        /\ HeldIgnoringCase = {} => AnswersTableNotFound

\* C15: a name held exactly is answered with its own entry; a name not held
\* exactly is answered with the entry of the first held name, in the order of the
\* file, that equals it ignoring case, so with the entry of "PatientDim" for
\* "patientdim" when no other held name differs from it by case only; a name
\* held in neither form is answered with the table-not-found error.
C15_Resolves ==
    Described =>
        /\ sArg \in Held => AnswersEntry(sArg)
        /\ sArg \notin Held =>
              \A k \in HeldIgnoringCase :
                  (\A other \in HeldIgnoringCase : PositionOf(k) <= PositionOf(other))
                      => AnswersEntry(k)
        /\ HeldIgnoringCase = {} => AnswersTableNotFound

C15_Witness ==
    /\ Described
    /\ sArg = "patientdim"
    /\ Held = {"PatientDim"}
    /\ AnswersEntry("PatientDim")


\* the four annotated tables
AnnotatedTables == {"PatientDim", "LabComponentResultFact", "LabComponentDim", "MedicationDim"}

\* what the note of each annotated table is about
NoteTopic ==
    [PatientDim |-> "fall back to MAX(StartDate)",
     LabComponentResultFact |-> "NumericValue is de-identified",
     LabComponentDim |-> "LoincCode",
     MedicationDim |-> "*Unspecified"]

\* C16: the answer of describe_table carries a data-quality note exactly when
\* the name it resolved to is one of the four annotated tables, and the note is
\* then the fixed text of that table; the answer for any other table of the
\* reference carries no note.
C16_NoteIffAnnotated ==
    (Described /\ sOut.kind = "json") =>
        LET answer == sOut.value[1]
        IN  /\ answer.table_name \in Held
            /\ Len(answer.data_notes) = 1 <=> answer.table_name \in AnnotatedTables
            /\ Len(answer.data_notes) \in {0, 1}
            /\ answer.table_name \in AnnotatedTables =>
                  /\ answer.data_notes = <<TABLE_NOTES[answer.table_name]>>
                  /\ Contains(answer.data_notes[1], NoteTopic[answer.table_name])
                  /\ \A other \in AnnotatedTables \ {answer.table_name} :
                        ~Contains(answer.data_notes[1], NoteTopic[other])

\* a note reached through the case-insensitive fallback
C16_Witness ==
    /\ Described
    /\ sArg = "labcomponentresultfact"
    /\ sOut.kind = "json"
    /\ sOut.value[1].table_name = "LabComponentResultFact"
    /\ sOut.value[1].data_notes = <<TABLE_NOTES.LabComponentResultFact>>


\* a step in which a schema operation ran
SchemaOperation ==
    /\ UNCHANGED <<refExists, refTables>>
    /\ <<sOp, sArg, sChecked, sOut, schema_ref, refReads>>'
          # <<sOp, sArg, sChecked, sOut, schema_ref, refReads>>
    /\ sOp' \in {"get_database_overview", "describe_table", "search_schema"}

\* the "schema reference not found" error, naming the expected path
SchemaNotFound(outcome) ==
    /\ outcome.kind = "error"
    /\ SubSeq(outcome.error, 1, 26) = "Schema reference not found"
    /\ Contains(outcome.error, SchemaRefPath)

\* C17 as stated: a schema operation that runs while the file does not exist
\* fails with the "schema reference not found" error and leaves the cache
\* unpopulated.
C17_MissingFileAlwaysFails ==
    [][(SchemaOperation /\ ~refExists) =>
          /\ SchemaNotFound(sOut')
          /\ ~schema_ref'.loaded]_vars

\* C17: a schema operation that runs while the file does not exist and the
\* reference has not been loaded fails with the "schema reference not found"
\* error naming the path and leaves the cache unpopulated; every operation that
\* runs with the cache unpopulated checks for the file, and loads it when it is
\* there.
C17_MissingFileFailsUntilLoaded ==
    [][SchemaOperation =>
          /\ (~refExists /\ ~schema_ref.loaded) =>
                /\ SchemaNotFound(sOut')
                /\ ~schema_ref'.loaded
                /\ refReads' = refReads
          /\ ~schema_ref.loaded => sChecked'
          /\ (refExists /\ ~schema_ref.loaded) =>
                /\ ~SchemaNotFound(sOut')
                /\ schema_ref' = [loaded |-> TRUE, tables |-> refTables]]_vars

\* an operation has failed for want of the file, and the cache is still empty
C17_Witness ==
    /\ sOp = "search_schema"
    /\ ~refExists
    /\ sChecked
    /\ SchemaNotFound(sOut)
    /\ ~schema_ref.loaded
    /\ refReads = 0


-----------------------------------------------------------------------------
(* The statistics tools *)

\* the characters a table name may be made of
TableNameChars == LowerSet \cup UpperSet \cup DigitSet \cup {"_", "."}

\* the positions of a text that hold a character a table name may not have
ForbiddenAt(text) == {i \in 1..Len(text) : Char(text, i) \notin TableNameChars}

\* the text is a part of the statement
OccursIn(statement, text) ==
    \E i \in 1..(Len(statement) - Len(text) + 1) :
        SubSeq(statement, i, i + Len(text) - 1) = text

\* C18: summarize_table answers a table name that has a character other than a
\* letter, a digit, an underscore or a period with the "Invalid table name"
\* error, without having asked for a connection or executed a statement; the
\* statements it executes carry a table name free of such characters.
C18_InvalidTableNameRejected ==
    tool = "summarize_table" =>
        /\ ForbiddenAt(sql) # {} =>
              /\ pc = "raised"
              /\ err = "Invalid table name"
              /\ connAttempts = 0
              /\ opens = 0
              /\ execCount = 0
              /\ lastExecuted = ""
        /\ execCount > 0 =>
              /\ ForbiddenAt(sql) = {}
              /\ OccursIn(lastExecuted, sql)

C18_Witness ==
    /\ tool = "summarize_table"
    /\ sql = "x]; DROP TABLE X --"
    /\ pc = "raised"
    /\ err = "Invalid table name"
    /\ connAttempts = 0
    /\ execCount = 0


\* summarize_table has summarized at least one column
ColumnSummarized == tool = "summarize_table" /\ colsDone > 0

\* the distance of a number of tenths of a percent from null_count / row_count * 100,
\* in units of one tenth of a percent divided by the row count
OffBy(tenths, null_count, row_count) ==
    IF tenths * row_count >= 1000 * null_count
    THEN tenths * row_count - 1000 * null_count
    ELSE 1000 * null_count - tenths * row_count

\* C19 as stated: with a row count of 0 every column summary has null_pct = 0 and
\* no division took place; with a positive row count null_pct is
\* null_count / row_count * 100.
C19_NullPctExact ==
    ColumnSummarized =>
        /\ rowCount = 0 => colSummary.null_pct = 0 /\ ~colSummary.divided
        /\ rowCount > 0 => OffBy(colSummary.null_pct, colSummary.null_count, rowCount) = 0

\* C19: with a row count of 0 every column summary has null_pct = 0 and no
\* division took place; with a positive row count null_pct is
\* null_count / row_count * 100 rounded to one decimal place.
C19_NullPctRounded ==
    ColumnSummarized =>
        /\ rowCount = 0 => colSummary.null_pct = 0 /\ ~colSummary.divided
        /\ rowCount > 0 =>
              2 * OffBy(colSummary.null_pct, colSummary.null_count, rowCount) <= rowCount

\* an empty table whose summary has been returned with its columns
C19_Witness ==
    /\ ColumnSummarized
    /\ pc = "returned"
    /\ rowCount = 0
    /\ colsDone = MaxCols
    /\ colSummary.null_pct = 0
    /\ ~colSummary.divided


\* a step of cohort_summary that executes a statement
CohortExecutes ==
    /\ tool = "cohort_summary"
    /\ tool' = "cohort_summary"
    /\ execCount' = execCount + 1

\* the query that counts the distinct values of a column of the subquery
DistinctCountOf(column) ==
    "SELECT COUNT(DISTINCT " \o column \o ") FROM (" \o sql \o ") sub"

\* a breakdown query that filters the patient dimension on a column
FiltersPatientDimOn(statement, breakdown, column) ==
    /\ SubSeq(statement, 1, Len(breakdown) + 7) = "SELECT " \o breakdown
    /\ OccursIn(statement, " FROM deid_uf.PatientDim WHERE IsCurrent = 1 AND " \o column
                           \o " IN (" \o sql \o ") GROUP BY " \o breakdown)

\* the breakdown queries, in the order they are run
Breakdowns == <<"Sex", "FirstRace", "Ethnicity">>

\* C20: the first statement of cohort_summary counts the distinct
\* PatientDurableKey values of the subquery; the PatientKey count is executed
\* exactly when that first count has failed, and is then the next statement;
\* id_column is the column of the count that succeeded and patient_count the
\* number it gave, both unchanged from then on and both in the result; the
\* breakdown queries are run only for a non-empty cohort with demographics asked
\* for, as Sex, FirstRace, Ethnicity, each filtering PatientDim on id_column.
C20_CountWithFallback ==
    [][/\ CohortExecutes =>
             /\ execCount = 0 => lastExecuted' = DistinctCountOf("PatientDurableKey")
             /\ (execCount = 1 /\ idColumn = "") <=> lastExecuted' = DistinctCountOf("PatientKey")
             /\ (idColumn = "" /\ idColumn' # "") =>
                   /\ idColumn' \in {"PatientDurableKey", "PatientKey"}
                   /\ lastExecuted' = DistinctCountOf(idColumn')
             /\ idColumn # "" =>
                   /\ idColumn' = idColumn
                   /\ rowCount' = rowCount
                   /\ demographics
                   /\ rowCount > 0
                   /\ execCount' - (IF idColumn = "PatientKey" THEN 2 ELSE 1) \in 1..3
                   /\ FiltersPatientDimOn(
                         lastExecuted',
                         Breakdowns[execCount' - (IF idColumn = "PatientKey" THEN 2 ELSE 1)],
                         idColumn)
       /\ (tool' = "cohort_summary" /\ execCount' = 1 /\ idColumn' = "") =>
             pc' = "cohort_fallback" /\ pending' = ""
       /\ (tool' = "cohort_summary" /\ pc' = "returned") =>
             /\ idColumn' \in {"PatientDurableKey", "PatientKey"}
             /\ result'.text = idColumn'
             /\ result'.rows = rowCount'
             /\ (demographics' /\ rowCount' > 0) =>
                   execCount' = 3 + (IF idColumn' = "PatientKey" THEN 2 ELSE 1)]_vars

\* a cohort counted by its surrogate key after the first count failed, with the
\* three breakdowns run on that key
C20_Witness ==
    /\ tool = "cohort_summary"
    /\ pc = "returned"
    /\ idColumn = "PatientKey"
    /\ result.text = "PatientKey"
    /\ result.rows = rowCount
    /\ rowCount > 0
    /\ execCount = 5
    /\ FiltersPatientDimOn(lastExecuted, "Ethnicity", "PatientKey")


-----------------------------------------------------------------------------
(* Startup *)

\* a credential that is absent or empty
Missing(credential) == credential = <<>> \/ credential = <<"">>

\* the process has left the entrypoint's own statements behind
PastEntry == spc \notin {"idle", "start", "main"}

\* nothing of the server exists: no configuration, no tool, no prompt, no run loop
NothingStarted ==
    /\ config = <<>>
    /\ regNext = 0
    /\ registered = {}
    /\ prompts = {}
    /\ spc # "running"

\* C21 as stated: once startup with a missing credential is past the entrypoint,
\* it has failed with the invalid-input error that all credentials must be
\* provided, with nothing of the server started, whatever the entrypoint.
C21_MissingCredentialFailsAsStated ==
    (PastEntry /\ \E i \in 1..4 : Missing(creds[i])) =>
        /\ spc = "failed"
        /\ startErr = "ValueError: All clinical database credentials must be provided"
        /\ NothingStarted

\* C21: startup with a missing credential never constructs the configuration,
\* registers a tool or enters the run loop; once past the entrypoint it has
\* failed, with the invalid-input error that all credentials must be provided
\* unless the entrypoint is the CLI and the log level names no logging level,
\* where the failure is that of the log level.
C21_MissingCredentialFails ==
    (\E i \in 1..4 : Missing(creds[i])) =>
        /\ NothingStarted
        /\ PastEntry =>
              /\ spc = "failed"
              /\ IF entry = "cli" /\ logLevel = "verbose"
                 THEN startErr = "AttributeError"
                 ELSE startErr = "ValueError: All clinical database credentials must be provided"

\* the CLI entrypoint, a usable log level and an empty password
C21_Witness ==
    /\ entry = "cli"
    /\ logLevel = "debug"
    /\ creds = <<<<"cdw">>, <<"cdw">>, <<"cdw">>, <<"">>>>
    /\ spc = "failed"
    /\ startErr = "ValueError: All clinical database credentials must be provided"
    /\ config = <<>>


\* the 17 tools of the catalog
CatalogTools ==
    {"get_database_overview", "describe_table", "search_schema",
     "query", "get_patient_demographics", "get_encounters", "get_medications",
     "get_diagnoses", "get_labs", "search_notes", "get_note", "export_query_to_csv",
     "search_diagnoses_by_code", "search_medications_by_code", "search_procedures_by_code",
     "summarize_table", "cohort_summary"}

\* C22: with the four credentials supplied and a log level that names a logging
\* level, startup does not end in an exception, registers the tool modules in
\* the order schema, query, notes, export, concept, stats, and has all 17 tools
\* of the catalog and the three prompts registered when it is in the run loop.
C22_StartupReachesRunLoop ==
    ((\A i \in 1..4 : ~Missing(creds[i])) /\ logLevel \in {"INFO", "debug"}) =>
        /\ spc # "failed"
        /\ spc = "running" =>
              /\ registered = CatalogTools
              /\ Cardinality(registered) = 17
              /\ Cardinality(prompts) = 3


-----------------------------------------------------------------------------
(* The converter: the sheets it was given and the schema it wrote *)

\* the table names seen in a sheet
SeenIn(sheet) == {sheet[i].table_name[1] : i \in {j \in 1..Len(sheet) : Named(sheet[j])}}

\* the rows of a sheet that carry a name, in the order of the sheet
RowsOf(sheet, name) == {i \in 1..Len(sheet) : sheet[i].table_name = <<name>>}

\* the columns written for an entry are the Columns rows of its table, in the
\* order of the sheet
CarriesColumns(written) ==
    LET rows == RowsOf(cols_rows, written.table_name)
    IN  /\ Len(written.columns) = Cardinality(rows)
        /\ \A i \in rows :
              LET position == Cardinality({j \in rows : j <= i})
              IN  /\ written.columns[position].name = cols_rows[i].column_name
                  /\ written.columns[position].ordinal_position = cols_rows[i].ordinal_position

\* the attributes written for an entry are those of a Tables row of its table
\* that no later row of the table follows
CarriesAttributes(written) ==
    \E i \in RowsOf(tables_rows, written.table_name) :
        /\ \A j \in RowsOf(tables_rows, written.table_name) : j <= i
        /\ written.description = tables_rows[i].table_description
        /\ written.has_patient_data = (tables_rows[i].has_pat_specific_data = <<"Y">>)
        /\ written.has_encounter_data = <<tables_rows[i].has_enc_specific_data = <<"Y">>>>

\* C23: the tables of the written schema are exactly the names seen in the
\* Tables sheet or in the Columns sheet, each once, in ascending order; an entry
\* of a table seen in Tables carries the attributes of its Tables row; an entry of
\* a table seen only in Columns has an empty description and has_patient_data
\* false; every entry carries the Columns rows of its table in the order of the
\* sheet, so none for a table seen only in Tables.
C23_MergeOfBothSheets ==
    convState = "done" =>
        /\ {schemaOut[i].table_name : i \in 1..Len(schemaOut)}
              = SeenIn(tables_rows) \cup SeenIn(cols_rows)
        /\ \A i \in 1..Len(schemaOut) : \A j \in 1..Len(schemaOut) :
              i < j => Less(schemaOut[i].table_name, schemaOut[j].table_name)
        /\ \A i \in 1..Len(schemaOut) :
              LET written == schemaOut[i]
              IN  /\ CarriesColumns(written)
                  /\ written.table_name \in SeenIn(tables_rows) => CarriesAttributes(written)
                  /\ written.table_name \notin SeenIn(tables_rows) =>
                        /\ written.description = <<"">>
                        /\ written.has_patient_data = FALSE
                        /\ written.columns # <<>>
                  /\ written.table_name \notin SeenIn(cols_rows) => written.columns = <<>>

\* one table of each kind: "Foo" in both sheets, "Bar_2" only in Tables and
\* "bar" only in Columns, written as Bar_2, Foo, bar
C23_Witness ==
    /\ convState = "done"
    /\ SeenIn(tables_rows) = {"Foo", "Bar_2"}
    /\ SeenIn(cols_rows) = {"Foo", "bar"}
    /\ Len(schemaOut) = 3
    /\ schemaOut[1].table_name = "Bar_2" /\ schemaOut[1].columns = <<>>
    /\ schemaOut[2].table_name = "Foo" /\ schemaOut[2].has_patient_data
    /\ Len(schemaOut[2].columns) = 1
    /\ schemaOut[3].table_name = "bar" /\ schemaOut[3].description = <<"">>
    /\ ~schemaOut[3].has_patient_data


\* the names of a sequence of tables
NamesOf(tables) == {tables[i] : i \in 1..Len(tables)}

\* the outcome of an operation is an answer made of the given tables
AnswerFrom(tables, operation, arg, outcome) ==
    /\ operation = "get_database_overview" =>
          /\ outcome.kind = "json"
          /\ Len(outcome.value[1].overview) = Len(tables)
          /\ \A i \in 1..Len(tables) : outcome.value[1].overview[i].table_name = tables[i]
    /\ operation = "describe_table" =>
          IF \E k \in NamesOf(tables) : Upper(k) = Upper(arg)
          THEN /\ outcome.kind = "json"
               /\ outcome.value[1].table_name \in NamesOf(tables)
               /\ Upper(outcome.value[1].table_name) = Upper(arg)
          ELSE outcome.kind = "error" /\ ~SchemaNotFound(outcome)
    /\ operation = "search_schema" =>
          /\ outcome.kind \in {"json", "text"}
          /\ outcome.kind = "json" =>
                \A i \in 1..Len(outcome.value[1].results) :
                    outcome.value[1].results[i].table_name \in NamesOf(tables)
          /\ outcome.kind = "text" =>
                \A k \in NamesOf(tables) : ~Contains(Lower(k), Lower(arg))

\* C24: once the schema reference is loaded, a schema operation leaves the
\* cached value as it is, neither looks for the file nor reads it, and answers
\* from the cached value, whether the file has since been changed or removed;
\* the file is read at most once in the life of the process.
C24_CacheNeverReloaded ==
    /\ [](refReads <= 1)
    /\ [][(SchemaOperation /\ schema_ref.loaded) =>
             /\ schema_ref' = schema_ref
             /\ refReads' = refReads
             /\ ~sChecked'
             /\ AnswerFrom(schema_ref.tables, sOp', sArg', sOut')]_vars

\* an overview answered from the loaded reference after the file was replaced
\* by one that holds other tables
C24_Witness ==
    /\ schema_ref.loaded
    /\ refReads = 1
    /\ refExists
    /\ NamesOf(refTables) \cap NamesOf(schema_ref.tables) = {}
    /\ refTables # <<>>
    /\ schema_ref.tables # <<>>
    /\ sOp = "get_database_overview"
    /\ ~sChecked
    /\ AnswerFrom(schema_ref.tables, sOp, sArg, sOut)


-----------------------------------------------------------------------------
(* Concurrent first accesses to the schema reference *)

\* the callers whose call has ended
Finished == {caller \in Callers : racers[caller].pc = "idle" /\ racers[caller].calls > 0}

\* every caller has made all its calls
AllCallsEnded ==
    \A caller \in Callers : racers[caller].pc = "idle" /\ racers[caller].calls = MaxCallsEach

\* what a caller is given is the content of the file
GivenFileContent(caller) ==
    racers[caller].result = [kind |-> "schema", tables |-> refTables]

\* C25: with callers of the first access interleaved at will, a call that ends
\* is given the content of the file, or fails when the file is not there, and
\* never the unpopulated cache; the cache, once populated, holds the content of
\* the file and keeps its value whoever populates it again; and in the end
\* every call has ended, with the cache populated if the file is there.
C25_RaceIsBenign ==
    /\ [](/\ \A caller \in Finished :
                IF refExists THEN GivenFileContent(caller)
                ELSE racers[caller].result.kind = "error"
          /\ schema_ref.loaded => schema_ref.tables = refTables)
    /\ [][schema_ref.loaded => schema_ref' = schema_ref]_vars
    /\ <>[](/\ AllCallsEnded
            /\ refExists => schema_ref = [loaded |-> TRUE, tables |-> refTables])

\* both callers found the cache unpopulated, both parsed the file, and both
\* were given its content
C25_Witness ==
    /\ refReads = 2
    /\ refTables = <<"PatientDim", "patientdim">>
    /\ Finished = Callers
    /\ \A caller \in Callers : GivenFileContent(caller) /\ racers[caller].calls = 1
    /\ schema_ref = [loaded |-> TRUE, tables |-> refTables]


-----------------------------------------------------------------------------
(* Failures and what follows them *)

\* a step in which pymssql.connect raised
ConnectFailed == connAttempts' = connAttempts + 1 /\ conn' # "open"

\* a step in which cursor.execute raised
ExecuteFailed == execCount' = execCount + 1 /\ (pending' # "" \/ pc' = "cohort_fallback")

\* the exception is on its way to the caller through the finally clause
Surfacing == pending' # "" /\ pc' = "finally"

\* at most one connection attempt per invocation; a failed attempt ends the
\* invocation with the connection error; once something has failed nothing is
\* executed and no connection is asked for; what the finally clause lets
\* through is the error the invocation ends with
FailuresAreFinal ==
    /\ connAttempts' <= 1
    /\ ConnectFailed => pc' = "raised" /\ err' = MsgConnFailed(connError') /\ execCount' = 0
    /\ (pending # "" \/ connError # "") =>
          /\ execCount' <= execCount
          /\ connAttempts' <= connAttempts
          /\ pc' \in {"raised", "idle"}
    /\ (pending # "" /\ pc' = "raised") => err' = pending

\* C26 as stated: no invocation makes a second connection attempt, and every
\* failed connection attempt and every failed query execution ends the
\* invocation with that error, nothing being executed after it.
C26_NoRetryAsStated ==
    [][/\ FailuresAreFinal
       /\ ExecuteFailed => Surfacing]_vars

\* C26: no invocation makes a second connection attempt, and every failed
\* connection attempt and every failed query execution ends the invocation with
\* that error, nothing being executed after it, except the first count of
\* cohort_summary: its failure is not reported, and the count is executed once
\* more over PatientKey, whose failure does end the invocation.
C26_NoRetryButCohortFallback ==
    [][/\ FailuresAreFinal
       /\ ExecuteFailed =>
             IF tool = "cohort_summary" /\ execCount = 0
             THEN /\ pc' = "cohort_fallback"
                  /\ pending' = ""
                  /\ lastExecuted' = CohortCountSql("PatientDurableKey", sql)
             ELSE Surfacing
       /\ pc = "cohort_fallback" =>
             /\ execCount' = 2
             /\ lastExecuted' = CohortCountSql("PatientKey", sql)
             /\ pending' # "" => Surfacing]_vars

\* both counts of cohort_summary failed, and the invocation ended with the
\* error of the second
C26_Witness ==
    /\ tool = "cohort_summary"
    /\ pc = "raised"
    /\ execCount = 2
    /\ connAttempts = 1
    /\ pending \in BackendErrors
    /\ err = pending
    /\ conn = "closed"


-----------------------------------------------------------------------------
(* The export loop *)

Exporting == tool = "export_query_to_csv"

\* C27: while export_query_to_csv writes, the data rows of the file are the
\* rows the cursor has handed out so far, so each of them once and in the
\* cursor's order, and the row count is their number; a turn of the loop writes
\* the next rows of the cursor, at most 5,000 of them, and is the last turn
\* exactly when the cursor had no row left; the loop is left after finitely many
\* turns; and an export that returns has written every row of the result and
\* reports their number, be it zero or a multiple of 5,000.
C27_ExportWritesEveryRowOnce ==
    /\ []((Exporting /\ fileExists) =>
             /\ fetched = fileRows
             /\ fileRows = nrows - remaining
             /\ remaining >= 0)
    /\ []((Exporting /\ pc = "returned" /\ ncols > 0) =>
             /\ fileExists
             /\ fileRows = nrows
             /\ result = Text("Exported " \o IntStr(nrows) \o " rows to " \o ExportPath))
    /\ [][(pc = "export_loop" /\ pending' = "") =>
             /\ fileRows' - fileRows = Min(remaining, ExportBatchSize)
             /\ pc' = IF remaining = 0 THEN "finally" ELSE "export_loop"
             /\ remaining > 0 => remaining' < remaining]_vars
    /\ (pc = "export_loop") ~> (pc = "finally")

\* an export of two full batches and a row has returned
C27_Witness ==
    /\ Exporting
    /\ pc = "returned"
    /\ nrows = 2 * ExportBatchSize + 1
    /\ fileExists
    /\ fileRows = 10001
    /\ result.text = "Exported 10001 rows to /exports/results.csv"


-----------------------------------------------------------------------------
(* The search tools and the text they are given *)

\* the text holds a blocked keyword as a whole word, or a semicolon with a word
\* character right after it
Offends(term) ==
    \/ \E kw \in BlockedKeywords : OccursAsWord(term, kw)
    \/ \E i \in 1..(Len(term) - 1) : Char(term, i) = ";" /\ IsWord(Char(term, i + 1))

\* the invocation in progress is a search for the term
SearchesFor(term) ==
    /\ pc # "idle"
    /\ \E row_limit \in SearchRowLimits :
          \/ tool = "search_diagnoses_by_code" /\ sql = DiagnosesSql(term, row_limit)
          \/ tool = "search_medications_by_code" /\ sql = MedicationsSql(term, row_limit)
          \/ tool = "search_procedures_by_code" /\ sql = ProceduresSql(term, row_limit)
          \/ tool = "search_notes" /\ sql = SearchNotesSql("12345", term, row_limit)

\* C28: a search whose term or keyword holds a blocked keyword as a whole word,
\* or a semicolon followed by a word character, fails with the only-SELECT
\* error, and no connection is asked for.  (Violated: a term that begins with
\* "--" hides the rest of the statement from the validator.)
C28_OffendingTermRejected ==
    \A term \in SearchTerms :
        (SearchesFor(term) /\ Offends(term)) =>
            /\ pc = "raised"
            /\ err = MsgOnlySelect
            /\ connAttempts = 0
            /\ execCount = 0

=============================================================================
